---- MODULE Spec2Model ----
(***************************************************************************)
(* SedDepEroder (landlab/components/stream_power/sed_flux_dep_incision.py) *)
(* as a state machine: construction of the component, one erode call with  *)
(* its adaptive sub-step loop, and the flow router acting on the grid      *)
(* between the two; and the mappers of landlab/grid/mappers.py, each       *)
(* called once on a raster grid.                                           *)
(*                                                                         *)
(* Numbers.  The code computes in IEEE doubles.  The model computes in     *)
(* exact rationals extended with the three special values a double can     *)
(* take (NaN, +inf, -inf), so every equality below is an equality of real  *)
(* numbers and a division by zero gives what numpy gives (inf or NaN with  *)
(* a warning, never an exception).  A number is a pair <<n, d>> in lowest  *)
(* terms with d >= 0; d = 0 marks the special values.                      *)
(***************************************************************************)
EXTENDS Integers, Sequences, FiniteSets, TLC

----------------------------------------------------------------------------
(* Extended rational arithmetic (the float arithmetic of numpy).  The      *)
(* operations are functions, so that an argument is evaluated once, when   *)
(* the function is applied; the operators of the same name in capitals     *)
(* apply them.                                                             *)

Abs(x) == IF x < 0 THEN -x ELSE x

Sgn(x) == IF x > 0 THEN 1 ELSE IF x < 0 THEN -1 ELSE 0

Num == Int \X Int

gcd[a \in Nat, b \in Nat] == IF b = 0 THEN a ELSE gcd[b, a % b]

GCD(a, b) == gcd[a, b]

NaN == <<0, 0>>

Inf == <<1, 0>>

NegInf == <<-1, 0>>

Zero == <<0, 1>>

One == <<1, 1>>

\* n/d in lowest terms; d = 0 gives inf, -inf or NaN by the sign of n.
rat[n \in Int, d \in Int] ==
    IF d = 0 THEN <<Sgn(n), 0>>
    ELSE <<Sgn(n) * Sgn(d) * (Abs(n) \div gcd[Abs(n), Abs(d)]),
           Abs(d) \div gcd[Abs(n), Abs(d)]>>

Rat(n, d) == rat[n, d]

IsNaN(a) == a = NaN

IsFinite(a) == a[2] # 0

rneg[a \in Num] == <<-a[1], a[2]>>

RNeg(a) == rneg[a]

radd[a \in Num, b \in Num] ==
    IF IsNaN(a) \/ IsNaN(b) THEN NaN
    ELSE IF ~IsFinite(a) /\ ~IsFinite(b) THEN (IF a = b THEN a ELSE NaN)
    ELSE IF ~IsFinite(a) THEN a
    ELSE IF ~IsFinite(b) THEN b
    ELSE rat[a[1] * (b[2] \div gcd[a[2], b[2]]) + b[1] * (a[2] \div gcd[a[2], b[2]]),
             (a[2] \div gcd[a[2], b[2]]) * b[2]]

RAdd(a, b) == radd[a, b]

RSub(a, b) == radd[a, rneg[b]]

rmul[a \in Num, b \in Num] ==
    IF ~IsFinite(a) \/ ~IsFinite(b) THEN <<Sgn(a[1]) * Sgn(b[1]), 0>>
    ELSE rat[(a[1] \div gcd[Abs(a[1]), b[2]]) * (b[1] \div gcd[Abs(b[1]), a[2]]),
             (a[2] \div gcd[Abs(b[1]), a[2]]) * (b[2] \div gcd[Abs(a[1]), b[2]])]

RMul(a, b) == rmul[a, b]

\* 1/a: 1/0 = inf and 1/inf = 0, as in float division.
rinv[a \in Num] ==
    IF IsNaN(a) THEN NaN
    ELSE IF ~IsFinite(a) THEN Zero
    ELSE IF a[1] = 0 THEN Inf
    ELSE <<Sgn(a[1]) * a[2], Abs(a[1])>>

RInv(a) == rinv[a]

RDiv(a, b) == rmul[a, rinv[b]]

\* a < b; every comparison with NaN is false.
rlt[a \in Num, b \in Num] ==
    IF IsNaN(a) \/ IsNaN(b) THEN FALSE
    ELSE IF ~IsFinite(a) \/ ~IsFinite(b)
         THEN a # b /\ (a = NegInf \/ b = Inf)
    ELSE a[1] * (b[2] \div gcd[a[2], b[2]]) < b[1] * (a[2] \div gcd[a[2], b[2]])

RLt(a, b) == rlt[a, b]

rle[a \in Num, b \in Num] == rlt[a, b] \/ (a = b /\ ~IsNaN(a))

RLe(a, b) == rle[a, b]

RGt(a, b) == rlt[b, a]

RGe(a, b) == rle[b, a]

rabs[a \in Num] == <<Abs(a[1]), a[2]>>

RAbs(a) == rabs[a]

\* Python's min((a, b)): the first argument unless the second is smaller.
pymin[a \in Num, b \in Num] == IF rlt[b, a] THEN b ELSE a

PyMin(a, b) == pymin[a, b]

\* ndarray.clip(lo): values below lo are raised to lo, NaN stays NaN.
clip[a \in Num, lo \in Num] == IF rlt[a, lo] THEN lo ELSE a

Clip(a, lo) == clip[a, lo]

\* The least element of a non-empty finite set of non-NaN numbers.
RMinOf(S) == CHOOSE m \in S : \A x \in S : ~RLt(x, m)

\* np.amin over the values S of a non-empty array: NaN if any value is NaN.
AMin(S) == IF NaN \in S THEN NaN ELSE RMinOf(S)

\* np.nanmin: NaN values are ignored; an all-NaN array gives NaN.
NanMin(S) == IF S \subseteq {NaN} THEN NaN ELSE RMinOf(S \ {NaN})

\* x ** k for a natural k (numpy: x ** 0 = 1 for every x, NaN included).
rpownat[x \in Num, k \in Nat] == IF k = 0 THEN One ELSE rmul[x, rpownat[x, k - 1]]

RPowNat(x, k) == rpownat[x, k]

\* The exact square root of a square rational.
ISqrt(n) == CHOOSE r \in 0..n : r * r = n

rsqrt[x \in Num] == <<ISqrt(x[1]), ISqrt(x[2])>>

RSqrt(x) == rsqrt[x]

\* x ** e for a finite x >= 0 and an exponent e = <<k, 1>> or <<k, 2>>.
rpow[x \in Num, e \in Num] ==
    IF e[1] < 0
    THEN rinv[rpownat[IF e[2] = 1 THEN x ELSE rsqrt[x], Abs(e[1])]]
    ELSE rpownat[IF e[2] = 1 THEN x ELSE rsqrt[x], Abs(e[1])]

RPow(x, e) == rpow[x, e]

----------------------------------------------------------------------------
(* The grid and the drainage network the flow router produced.  A channel  *)
(* of four nodes: node 0 is the open outlet on the boundary, nodes 1 and 2 *)
(* are core nodes draining 2 -> 1 -> 0, node 3 is a closed boundary node.  *)
(* Only core nodes own a cell.                                             *)

Nodes == 0..3

number_of_nodes == Cardinality(Nodes)

core_nodes == {1, 2}

node_at_cell == {1, 2}

area_of_cell == (1 :> <<3, 1>> @@ 2 :> <<1, 1>>)

flow_receiver == (0 :> 0 @@ 1 :> 0 @@ 2 :> 1 @@ 3 :> 3)

\* The same nodes listed upstream-to-downstream.
s_in_headwaters_first == <<3, 2, 1, 0>>

\* flow__upstream_node_order: downstream-to-upstream.
s_in == <<0, 1, 2, 3>>

\* Nodes whose flow__link_to_receiver_node is not BAD_INDEX_VALUE.
draining_nodes == {1, 2}

\* grid.length_of_d8 at every link that carries flow.
length_of_d8 == One

node_A == (0 :> <<4, 1>> @@ 1 :> <<4, 1>> @@ 2 :> <<1, 1>> @@ 3 :> Zero)

\* The steepest downhill slope the flow router derives from an elevation
\* field: the drop to the receiver over the link length, 0 where no link
\* leaves the node.
RouterSlope(z) ==
    [n \in Nodes |->
        IF n \in draining_nodes
        THEN Clip(RDiv(RSub(z[n], z[flow_receiver[n]]), length_of_d8), Zero)
        ELSE Zero]

----------------------------------------------------------------------------
(* Configuration: the constructor's arguments and defaults.                *)

SecondsPerYear == 31557600

Year == <<SecondsPerYear, 1>>

WAVE_STABILITY_PREFACTOR == <<1, 5>>

conv_factor == <<3, 10>>

\* np.spacing(0.), the smallest positive double.  No double lies between 0
\* and it; the model gives it a value below every slope, capacity and rate
\* that the elevation choices produce.
Tiny == <<1, 1000000>>

m_sp == <<1, 2>>

m_t == <<3, 2>>

n_t == One

rock_density == <<2700, 1>>

sediment_density == <<2700, 1>>

\* K_sp and K_t are given per year; the values make the per-second
\* prefactors 1/10.
K_sp == RDiv(Year, <<10, 1>>)

K_t == RDiv(Year, <<10, 1>>)

SupportedTypes == {"generalized_humped", "None", "linear_decline", "almost_parabolic"}

\* The family the model runs, and one unsupported name.
TypeChoices == {"None", "parabolic"}

\* np.arange(0., 1.001, 0.001) has 1001 samples: 0, 0.001, ..., 1.
SampleCount == 1001

Sample(i) == Rat(i, 1000)

\* kappa_hump, nu_hump, phi_hump and c_hump of a component of another
\* family: __init__ sets them to 0.
NoHump == [kappa |-> Zero, nu |-> 0, phi |-> Zero, c |-> Zero]

\* Shape parameters of generalized_humped: a curve with its hump inside
\* (0, 1), at 0.5, and one that rises all the way to 1.
HumpChoices ==
    { [kappa |-> One, nu |-> 1, phi |-> One, c |-> Zero],
      [kappa |-> One, nu |-> 1, phi |-> Zero, c |-> One] }

\* The cover limb of the humped curve, falling from 1 at x = 0 at the rate
\* phi; taken linear in x, so that its values are rational.
CoverLimb(phi, x) == RSub(One, RMul(phi, x))

\* norm x kappa x (x^nu + c) x cover limb: the tools limb rises with x, the
\* cover limb falls.
sed_flux_fn_gen_genhump(x, kappa, nu, c, phi, norm) ==
    RMul(RMul(norm, kappa),
         RMul(RAdd(RPowNat(x, nu), c), CoverLimb(phi, x)))

\* max((a, b)) of Python: b only when it is the larger.
PyMax(a, b) == IF RGt(b, a) THEN b ELSE a

\* The largest value of the curve, taken with norm 1, at the samples lo to
\* hi.  The loop of set_sed_flux_fn_gen folds max over the samples in
\* order; max being associative, the model folds them by halves.
RECURSIVE MaxValOver(_, _, _)
MaxValOver(h, lo, hi) ==
    IF lo = hi
    THEN sed_flux_fn_gen_genhump(Sample(lo), h.kappa, h.nu, h.c, h.phi, One)
    ELSE LET mid == (lo + hi) \div 2
         IN  PyMax(MaxValOver(h, lo, mid), MaxValOver(h, mid + 1, hi))

\* max_val when the loop ends: it starts from 0.
MaxVal(h) == PyMax(MaxValOver(h, 0, SampleCount - 1), Zero)

\* 1. / max_val for each choice of the shape parameters.  max_val is
\* positive for every choice in HumpChoices; with max_val = 0 the division,
\* one of Python floats, would raise ZeroDivisionError.
hump_norm == [h \in HumpChoices |-> RDiv(One, MaxVal(h))]

\* The constant left at the 1 the curve is sampled with.
set_sed_flux_fn_gen_unscaled(type, h) ==
    IF type = "generalized_humped" THEN One ELSE Zero

\* self.norm as set_sed_flux_fn_gen leaves it: 1 / max_val for
\* generalized_humped, the 0 of __init__ for every other family.
set_sed_flux_fn_gen(type, h) ==
    IF type = "generalized_humped" THEN hump_norm[h] ELSE Zero

QcChoices == {"power_law", "MPM", "Voller_generalized", "bedload_law"}

\* runoff_rate: a number, an array of the node count, an array of another
\* size, the name of a field of the grid, the name of no field.
RunoffChoices == {"scalar", "array", "short_array", "field", "no_such_field"}

NspChoices == {Zero, One}

RepeatChoices == {1, 2}

\* Elevation fields: strictly rising upstream along the channel.
ElevChoices ==
    { (0 :> Zero @@ 1 :> <<1, 2>> @@ 2 :> <<1, 1>> @@ 3 :> <<1, 1>>),
      (0 :> Zero @@ 1 :> <<1, 2>> @@ 2 :> <<2, 1>> @@ 3 :> <<2, 1>>),
      (0 :> Zero @@ 1 :> <<1, 1>> @@ 2 :> <<2, 1>> @@ 3 :> <<2, 1>>) }

\* channel_sediment__depth where the user created the field before
\* construction: a uniform depth.
DepthChoices == {Zero, <<1, 4>>, One}

ZeroField == [n \in Nodes |-> Zero]

SedChoices == {[n \in Nodes |-> h] : h \in DepthChoices}

\* dt of an erode call, in years: 0, 1 and 2 seconds.
DtChoices == {Zero, RDiv(<<1, 1>>, Year), RDiv(<<2, 1>>, Year)}

\* flooded_nodes of an erode call.  kind "none" is None; "mask" a boolean
\* ndarray of the given size, True at nodes; "ids" an integer ndarray
\* holding the node ids in nodes; "field" the name of a boolean field of
\* the grid, True at nodes; "no_such_field" a name the grid does not have.
FloodChoices ==
    { [kind |-> "none", size |-> 0, nodes |-> {}],
      [kind |-> "mask", size |-> number_of_nodes, nodes |-> {2}],
      [kind |-> "mask", size |-> number_of_nodes, nodes |-> {0, 1}],
      [kind |-> "mask", size |-> number_of_nodes - 1, nodes |-> {2}],
      [kind |-> "ids", size |-> 1, nodes |-> {1}],
      [kind |-> "ids", size |-> number_of_nodes, nodes |-> {number_of_nodes}],
      [kind |-> "field", size |-> number_of_nodes, nodes |-> {1}],
      [kind |-> "no_such_field", size |-> 0, nodes |-> {}] }

----------------------------------------------------------------------------
(* The grid of the mappers: RasterModelGrid((3, 4)), the grid of every     *)
(* example in mappers.py.  Nodes are numbered along the rows from the      *)
(* bottom left; the links of a row of nodes come first, then the links up  *)
(* to the next row.  A link points east or north, from its tail to its     *)
(* head.                                                                   *)

number_of_node_rows == 3

number_of_node_columns == 4

RmgNodes == 0..(number_of_node_rows * number_of_node_columns - 1)

\* The links of one row of nodes and of the step up to the next row.
LinksPerRow == 2 * number_of_node_columns - 1

number_of_links ==
    number_of_node_rows * (number_of_node_columns - 1)
        + (number_of_node_rows - 1) * number_of_node_columns

RmgLinks == 0..(number_of_links - 1)

RmgCells == 0..((number_of_node_rows - 2) * (number_of_node_columns - 2) - 1)

\* grid.node_at_cell of the raster: the interior nodes.
rmg_node_at_cell ==
    [c \in RmgCells |->
        (1 + c \div (number_of_node_columns - 2)) * number_of_node_columns
            + 1 + (c % (number_of_node_columns - 2))]

IsHorizontal(l) == (l % LinksPerRow) < number_of_node_columns - 1

node_at_link_tail ==
    [l \in RmgLinks |->
        IF IsHorizontal(l)
        THEN (l \div LinksPerRow) * number_of_node_columns + (l % LinksPerRow)
        ELSE (l \div LinksPerRow) * number_of_node_columns
                 + (l % LinksPerRow) - (number_of_node_columns - 1)]

node_at_link_head ==
    [l \in RmgLinks |->
        IF IsHorizontal(l) THEN node_at_link_tail[l] + 1
        ELSE node_at_link_tail[l] + number_of_node_columns]

\* The slots of a row of links_at_node: east, north, west, south.
Slots == 1..4

\* grid.links_at_node: the link in each slot, -1 where there is none.
links_at_node ==
    [n \in RmgNodes |->
        LET r == n \div number_of_node_columns
            c == n % number_of_node_columns
        IN  << IF c < number_of_node_columns - 1 THEN r * LinksPerRow + c ELSE -1,
               IF r < number_of_node_rows - 1
               THEN r * LinksPerRow + number_of_node_columns - 1 + c ELSE -1,
               IF c > 0 THEN r * LinksPerRow + c - 1 ELSE -1,
               IF r > 0
               THEN (r - 1) * LinksPerRow + number_of_node_columns - 1 + c
               ELSE -1 >>]

\* grid.link_dirs_at_node: 1 for a link that points into the node, -1 for
\* one that points out of it, 0 for an empty slot.
link_dirs_at_node ==
    [n \in RmgNodes |->
        [k \in Slots |->
            IF links_at_node[n][k] = -1 THEN 0
            ELSE IF node_at_link_head[links_at_node[n][k]] = n THEN 1 ELSE -1]]

\* The node field z of the examples: np.arange(12.).
z_arange == [n \in RmgNodes |-> <<n, 1>>]

\* The node field z of the examples whose middle row runs backwards.
z_middle_row_reversed ==
    [n \in RmgNodes |->
        IF n \div number_of_node_columns = 1
        THEN <<3 * number_of_node_columns - 1 - n, 1>> ELSE <<n, 1>>]

\* The node field vals_to_map of the examples: ten times z.
vals_to_map_of(z) == [n \in RmgNodes |-> <<10 * z[n][1], 1>>]

\* The link field grad of the examples.
grad_example ==
    [l \in RmgLinks |->
        << << -1, -2, -1,  -2, -3, -4, -5,  -1, -2, -1,
              -1, -2, -3, -4,  -1, -2, -1 >>[l + 1], 1 >>]

\* The link field grad of the examples that is 0 on the links that point
\* north.
grad_horizontal ==
    [l \in RmgLinks |-> IF IsHorizontal(l) THEN grad_example[l] ELSE Zero]

\* The link field vals of the examples: np.arange(number_of_links).
vals_arange == [l \in RmgLinks |-> <<l, 1>>]

\* The node around which the model varies the link field: interior, with
\* a link in each slot.
centre_node == 5

LinkValueChoices == {<<-2, 1>>, <<-1, 1>>, Zero, One}

\* The link fields the model calls the mappers with: the example field
\* with every choice of values on the four links of centre_node.
GradChoices ==
    { [l \in RmgLinks |->
          IF l = links_at_node[centre_node][1] THEN e
          ELSE IF l = links_at_node[centre_node][2] THEN n
          ELSE IF l = links_at_node[centre_node][3] THEN w
          ELSE IF l = links_at_node[centre_node][4] THEN s
          ELSE grad_example[l]]
      : e \in LinkValueChoices, n \in LinkValueChoices,
        w \in LinkValueChoices, s \in LinkValueChoices }

ZChoices == {z_arange, z_middle_row_reversed}

----------------------------------------------------------------------------
VARIABLES
    pc,                           \* where the program is
    raised,                       \* the exception that ended it, or "none"
    \* fields of the grid
    topographic__elevation,
    topographic__steepest_slope,
    channel_sediment__depth,
    has_sediment_field,           \* channel_sediment__depth is in grid.at_node
    receiver_field,               \* flow__receiver_node: absent, single, multi
    output_fields,                \* initialize_output_fields has run
    channel_sediment__volumetric_transport_capacity,
    channel_sediment__volumetric_discharge,
    channel_sediment__relative_flux,
    channel__bed_shear_stress,
    channel__discharge,
    \* attributes of the component
    sde,                          \* type, Qc, n_sp, pseudoimplicit_repeats
    hillslope_sediment_flux_wzeros,
    voldroprate,
    is_it_TL,
    pseudoimplicit_aborts,
    \* locals of erode
    dt_secs,
    is_flooded,
    elev_less_sed,
    downward_slopes,
    max_tstep_wave,
    dzbydt,
    transport_capacities,
    river_volume_flux_into_node,
    rel_sed_flux,
    sediment_passed,              \* what the pass sent on from each node
    t_to_converge,                \* as np.amin or the handler assigns it
    t_elapsed_internal,
    this_tstep,
    break_flag,
    loopcounter,
    \* history, kept for the properties
    z_initial,                    \* elevation when erode was entered
    sed_initial,                  \* sediment depth when erode was entered
    applied,                      \* the sub-step lengths applied so far
    chosen_tsteps,                \* this_tstep of each pass before any trim
    ever_DL,                      \* nodes some pass found detachment-limited
    router_log,                   \* the last pass: visit order, flux read
    \* the mappers: fields of the raster grid, and one call
    at_node,                      \* the node fields z and vals_to_map
    at_link,                      \* the link fields grad and vals
    called,                       \* the mapper called, or "none"
    out,                          \* the buffer handed to it, if any
    bad_index,                    \* the padding asked of *_links_at_node
    rtn,                          \* what it returned
    mapper_raised                 \* the exception that ended it, or "none"

grid_vars == <<topographic__elevation, topographic__steepest_slope,
               channel_sediment__depth, has_sediment_field, receiver_field,
               output_fields, channel_sediment__volumetric_transport_capacity,
               channel_sediment__volumetric_discharge,
               channel_sediment__relative_flux, channel__bed_shear_stress,
               channel__discharge>>

\* The two output fields the component declares beside them.
declared_only_fields == <<channel__bed_shear_stress, channel__discharge>>

\* The three fields erode publishes when it returns.
published_fields == <<channel_sediment__volumetric_transport_capacity,
                      channel_sediment__volumetric_discharge,
                      channel_sediment__relative_flux>>

self_vars == <<sde, hillslope_sediment_flux_wzeros, voldroprate, is_it_TL,
               pseudoimplicit_aborts>>

local_vars == <<dt_secs, is_flooded, elev_less_sed, downward_slopes,
                max_tstep_wave, dzbydt, transport_capacities,
                river_volume_flux_into_node, rel_sed_flux, sediment_passed,
                t_to_converge, t_elapsed_internal, this_tstep, break_flag,
                loopcounter>>

hist_vars == <<z_initial, sed_initial, applied, chosen_tsteps, ever_DL,
               router_log>>

map_vars == <<at_node, at_link, called, out, bad_index, rtn, mapper_raised>>

vars == <<pc, raised, grid_vars, self_vars, local_vars, hist_vars, map_vars>>

NoFlood == [kind |-> "none", size |-> 0, nodes |-> {}]

NoComponent ==
    [type |-> "", Qc |-> "", n |-> Zero, repeats |-> 0,
     kappa |-> Zero, nu |-> 0, phi |-> Zero, c |-> Zero, norm |-> Zero]

\* No mapper has been called: the raster grid carries the fields of the
\* examples, no buffer exists.
NoBuffer == [passed |-> FALSE, values |-> <<>>]

NoReturn == [is_out |-> FALSE, values |-> <<>>]

\* No pass of the router has run.
NoLog == [order |-> <<>>, read |-> [n \in Nodes |-> Zero], aborts |-> 0]

MappersIdle ==
    /\ at_node = [z |-> z_arange, vals_to_map |-> vals_to_map_of(z_arange)]
    /\ at_link = [grad |-> grad_example, vals |-> vals_arange]
    /\ called = "none"
    /\ out = NoBuffer
    /\ bad_index = -1
    /\ rtn = NoReturn
    /\ mapper_raised = "none"

\* The grid before the component exists: elevations set, the flow router
\* run or not (and then single- or multi-receiver), the sediment field
\* created by the user or not.
InitErode ==
    /\ pc = "new"
    /\ raised = "none"
    /\ topographic__elevation \in ElevChoices
    /\ topographic__steepest_slope = RouterSlope(topographic__elevation)
    /\ has_sediment_field \in BOOLEAN
    /\ channel_sediment__depth \in
           (IF has_sediment_field THEN SedChoices ELSE {ZeroField})
    /\ receiver_field \in {"absent", "single", "multi"}
    /\ output_fields = FALSE
    /\ channel_sediment__volumetric_transport_capacity = ZeroField
    /\ channel_sediment__volumetric_discharge = ZeroField
    /\ channel_sediment__relative_flux = ZeroField
    /\ channel__bed_shear_stress = ZeroField
    /\ channel__discharge = ZeroField
    /\ sde = NoComponent
    /\ hillslope_sediment_flux_wzeros = ZeroField
    /\ voldroprate = ZeroField
    /\ is_it_TL = [n \in Nodes |-> FALSE]
    /\ pseudoimplicit_aborts = 0
    /\ dt_secs = Zero
    /\ is_flooded = NoFlood
    /\ elev_less_sed = ZeroField
    /\ downward_slopes = ZeroField
    /\ max_tstep_wave = Zero
    /\ dzbydt = ZeroField
    /\ transport_capacities = ZeroField
    /\ river_volume_flux_into_node = ZeroField
    /\ rel_sed_flux = ZeroField
    /\ sediment_passed = ZeroField
    /\ t_to_converge = Zero
    /\ t_elapsed_internal = Zero
    /\ this_tstep = Zero
    /\ break_flag = FALSE
    /\ loopcounter = 0
    /\ z_initial = topographic__elevation
    /\ sed_initial = channel_sediment__depth
    /\ applied = <<>>
    /\ chosen_tsteps = <<>>
    /\ ever_DL = {}
    /\ router_log = NoLog

Init == InitErode /\ MappersIdle

----------------------------------------------------------------------------
(* __init__                                                                *)

\* The first check of __init__ that fails, in the order of the code, or
\* "none".
InitError(recv, type, runoff, Qc) ==
    IF recv = "multi" THEN "NotImplementedError"
    ELSE IF type \notin SupportedTypes THEN "AssertionError"
    ELSE IF runoff = "no_such_field" THEN "FieldError"
    ELSE IF runoff = "short_array" THEN "AssertionError"
    ELSE IF Qc = "MPM" THEN "NameError"
    ELSE IF Qc = "power_law" THEN "none"
    ELSE IF Qc = "Voller_generalized" THEN "NameError"
    ELSE "NameError"

\* The fields added on entry to __init__, ahead of its checks.
InitAddsFieldsFirst(error) == TRUE

\* __init__ reaches the statements that add fields to the grid (the
\* sediment depth field, then the output fields) only past every check.
InitReachesFields(error) == error = "none"

\* __init__ on a grid that is handed zeros for its sediment whatever the
\* grid holds.
hillslope_sediment_zeroed(present, field) == ZeroField

\* self._hillslope_sediment: the grid's channel_sediment__depth array when
\* the grid has the field, the array add_zeros creates when it has not.
hillslope_sediment(present, field) == IF present THEN field ELSE ZeroField

Construct(type, runoff, Qc, n, repeats) ==
    /\ pc = "new"
    /\ UNCHANGED map_vars
    /\ LET error == InitError(receiver_field, type, runoff, Qc) IN
       /\ raised' = error
       /\ pc' = IF error = "none" THEN "idle" ELSE "raised"
       /\ \E h \in (IF type = "generalized_humped" THEN HumpChoices ELSE {NoHump}) :
              sde' = IF error = "none"
                     THEN [type |-> type, Qc |-> Qc, n |-> n, repeats |-> repeats,
                           kappa |-> h.kappa, nu |-> h.nu, phi |-> h.phi,
                           c |-> h.c, norm |-> set_sed_flux_fn_gen(type, h)]
                     ELSE sde
       /\ has_sediment_field' = (has_sediment_field \/ InitReachesFields(error))
       /\ channel_sediment__depth' =
              IF InitReachesFields(error)
              THEN hillslope_sediment(has_sediment_field,
                                      channel_sediment__depth)
              ELSE channel_sediment__depth
       /\ output_fields' = InitReachesFields(error)
       /\ channel__bed_shear_stress' =
              IF InitReachesFields(error) THEN ZeroField
              ELSE channel__bed_shear_stress
       /\ channel__discharge' =
              IF InitReachesFields(error) THEN ZeroField ELSE channel__discharge
    /\ UNCHANGED <<topographic__elevation, topographic__steepest_slope,
                   receiver_field, published_fields,
                   hillslope_sediment_flux_wzeros, voldroprate,
                   is_it_TL, pseudoimplicit_aborts, local_vars, hist_vars>>

\* The flow router runs on the grid after construction: a single-receiver
\* director, or a route-to-multiple one whose receiver array is 2-d.
RunFlowRouter(kind) ==
    /\ pc = "idle"
    /\ UNCHANGED map_vars
    /\ receiver_field # kind
    /\ receiver_field' = kind
    /\ topographic__steepest_slope' = RouterSlope(topographic__elevation)
    /\ UNCHANGED <<pc, raised, topographic__elevation, channel_sediment__depth,
                   has_sediment_field, output_fields, published_fields,
                   declared_only_fields,
                   self_vars, local_vars, hist_vars>>

----------------------------------------------------------------------------
(* erode: the statements before the sub-step loop                          *)

K_unit_time == RDiv(K_sp, Year)

Kt_unit_time == RDiv(K_t, Year)

porosity == RDiv(sediment_density, rock_density)

RECURSIVE RSum(_, _)
RSum(f, S) ==
    IF S = {} THEN Zero
    ELSE LET x == CHOOSE y \in S : TRUE IN RAdd(f[x], RSum(f, S \ {x}))

\* self.cell_areas: the mean cell area at nodes that own no cell.
cell_areas ==
    [n \in Nodes |->
        IF n \in node_at_cell THEN area_of_cell[n]
        ELSE RDiv(RSum(area_of_cell, node_at_cell),
                  <<Cardinality(node_at_cell), 1>>)]

core_draining_nodes == draining_nodes \cap core_nodes

link_length ==
    [n \in Nodes |-> IF n \in core_draining_nodes THEN length_of_d8 ELSE NaN]

\* The prefactor with the area exponent of the erosion law.
transport_capacity_prefactor_with_m_sp ==
    [n \in Nodes |-> RMul(Kt_unit_time, RPow(node_A[n], m_sp))]

transport_capacity_prefactor_withA ==
    [n \in Nodes |-> RMul(Kt_unit_time, RPow(node_A[n], m_t))]

erosion_prefactor_withA ==
    [n \in Nodes |-> RMul(K_unit_time, RPow(node_A[n], m_sp))]

\* s ** e for a slope s: np.spacing(0.) to a negative power overflows to
\* inf.
SlopePow(s, e) == IF s = Tiny /\ e[1] < 0 THEN Inf ELSE RPow(s, e)

\* x * np.spacing(0.) for a finite x >= 0: the multiple of np.spacing(0.)
\* nearest to the product, ties to the even one.
TimesTiny(x) ==
    LET fl  == (2 * x[1] + x[2]) \div (2 * x[2])
        tie == (2 * x[1] + x[2]) % (2 * x[2]) = 0
        k   == IF tie /\ fl % 2 = 1 THEN fl - 1 ELSE fl
    IN  Rat(k * Tiny[1], Tiny[2])

\* prefactor * slope power, as the float product comes out.
SlopeProduct(x, p) == IF p = Tiny /\ IsFinite(x) THEN TimesTiny(x) ELSE RMul(x, p)

\* np.isclose(self._n, 1.) picks the first form.
wave_stab_cond_denominator(n_sp, slopes) ==
    [n \in Nodes |->
        IF n_sp = One THEN erosion_prefactor_withA[n]
        ELSE RMul(erosion_prefactor_withA[n],
                  SlopePow(slopes[n], RSub(n_sp, One)))]

MaxTstepWave(n_sp, slopes) ==
    RMul(WAVE_STABILITY_PREFACTOR,
         NanMin({RDiv(link_length[n], wave_stab_cond_denominator(n_sp, slopes)[n])
                    : n \in Nodes}))

\* erode without the check of the receiver array's shape.
EntryErrorNoShapeCheck(recv, fl) ==
    IF recv = "absent" THEN "FieldError"
    ELSE IF fl.kind = "no_such_field" THEN "FieldError"
    ELSE IF fl.kind = "mask" /\ fl.size # number_of_nodes THEN "AssertionError"
    ELSE "none"

\* What stops erode before it writes anything: the receiver array's shape
\* (a grid without the field fails on the look-up), then flooded_nodes.
EntryError(recv, fl) ==
    IF recv = "absent" THEN "FieldError"
    ELSE IF recv = "multi" THEN "NotImplementedError"
    ELSE IF fl.kind = "no_such_field" THEN "FieldError"
    ELSE IF fl.kind = "mask" /\ fl.size # number_of_nodes THEN "AssertionError"
    ELSE "none"

\* The supply rate of the sediment lying in the cells: depth x area / dt.
HillslopeFlux(sed, secs) ==
    [n \in Nodes |->
        IF n \in node_at_cell
        THEN RDiv(RMul(sed[n], area_of_cell[n]), secs)
        ELSE hillslope_sediment_flux_wzeros[n]]

EnterErode(dt, fl) ==
    /\ pc = "idle"
    /\ UNCHANGED map_vars
    /\ LET error == EntryError(receiver_field, fl)
           secs  == RMul(dt, Year)
           slopes == [n \in Nodes |-> Clip(topographic__steepest_slope[n], Tiny)]
       IN
       IF error # "none"
       THEN /\ pc' = "raised"
            /\ raised' = error
            /\ UNCHANGED <<grid_vars, self_vars, local_vars, hist_vars>>
       ELSE /\ pc' = "substep"
            /\ raised' = "none"
            /\ elev_less_sed' =
                   [n \in Nodes |->
                       RSub(topographic__elevation[n], channel_sediment__depth[n])]
            /\ dt_secs' = secs
            /\ is_flooded' = fl
            /\ hillslope_sediment_flux_wzeros' =
                   HillslopeFlux(channel_sediment__depth, secs)
            /\ voldroprate' = ZeroField
            /\ channel_sediment__depth' = ZeroField
            /\ downward_slopes' = slopes
            /\ max_tstep_wave' = MaxTstepWave(sde.n, slopes)
            /\ t_elapsed_internal' = Zero
            /\ break_flag' = FALSE
            /\ dzbydt' = ZeroField
            /\ loopcounter' = 0
            /\ z_initial' = topographic__elevation
            /\ sed_initial' = channel_sediment__depth
            /\ applied' = <<>>
            /\ chosen_tsteps' = <<>>
            /\ ever_DL' = {}
            /\ router_log' = NoLog
            /\ UNCHANGED <<topographic__elevation, topographic__steepest_slope,
                           has_sediment_field, receiver_field, output_fields,
                           published_fields, declared_only_fields,
                           sde, is_it_TL, pseudoimplicit_aborts,
                           transport_capacities, river_volume_flux_into_node,
                           rel_sed_flux, sediment_passed, t_to_converge,
                           this_tstep>>

----------------------------------------------------------------------------
(* iterate_sde_downstream: one pass of the router over the node order.     *)

\* The response function f(Qs/Qc) of the families the model evaluates;
\* type is the component's selector with its shape parameters and norm.
sed_flux_fn_gen(type, x) ==
    IF type.type = "linear_decline" THEN RSub(One, x)
    ELSE IF type.type = "generalized_humped"
    THEN sed_flux_fn_gen_genhump(x, type.kappa, type.nu, type.c, type.phi,
                                 type.norm)
    ELSE One

\* The bounded refinement at a detachment-limited node.  rel_in is Qs/Qc on
\* entry, gain the eroded volume rate per unit f over Qc, f the response at
\* the current estimate rel.  A pass moves the estimate to rel_in + gain*f;
\* it stops at capacity, or once f changes by less than 1%.
RECURSIVE Refine(_, _, _, _, _, _)
Refine(left, type, rel_in, gain, rel, f) ==
    IF left = 0 THEN [rel |-> rel, f |-> f, settled |-> FALSE]
    ELSE LET cand == RAdd(rel_in, RMul(gain, f)) IN
         IF ~RLt(cand, One) THEN [rel |-> One, f |-> f, settled |-> TRUE]
         ELSE LET f2 == sed_flux_fn_gen(type, cand) IN
              IF RLt(RMul(<<100, 1>>, RAbs(RSub(f2, f))), RAbs(f2))
              THEN [rel |-> cand, f |-> f2, settled |-> TRUE]
              ELSE Refine(left - 1, type, rel_in, gain, cand, f2)

\* One node: Qs the flux into it (river plus hillslope supply), Qc its
\* capacity, eprime its erosion rate at f = 1.
NodeSolve(type, repeats, Qs, Qc, eprime, area) ==
    IF RLt(Qs, Qc)
    THEN LET rel_in == RDiv(Qs, Qc)
             r == Refine(repeats, type, rel_in, RDiv(RMul(eprime, area), Qc),
                         rel_in, sed_flux_fn_gen(type, rel_in))
         IN  [TL |-> FALSE, dz |-> RNeg(RMul(eprime, r.f)), rel |-> r.rel,
              drop |-> Zero, pass |-> RMul(r.rel, Qc),
              aborted |-> ~r.settled]
    ELSE [TL |-> TRUE, dz |-> Zero, rel |-> One,
          drop |-> RMul(RSub(Qs, Qc), porosity), pass |-> Qc,
          aborted |-> FALSE]

\* The pass visits s_in from its last entry to its first: headwaters
\* first, the outlet last.  acc holds the arrays the pass writes, the nodes
\* in the order visited, the river flux found at each on its visit, and the
\* number of nodes whose refinement used up its passes.
RECURSIVE RouterFrom(_, _, _, _, _, _, _)
RouterFrom(k, type, repeats, hill, cap, epre, acc) ==
    IF k = 0 THEN acc
    ELSE LET i == s_in[k]
             to == flow_receiver[i]
         IN  CHOOSE res \in
                 { RouterFrom(k - 1, type, repeats, hill, cap, epre, next)
                   : next \in
                     { [river |-> [acc.river EXCEPT ![to] = RAdd(@, r.pass)],
                        dz    |-> [acc.dz EXCEPT ![i] = r.dz],
                        TL    |-> [acc.TL EXCEPT ![i] = r.TL],
                        rel   |-> [acc.rel EXCEPT ![i] = r.rel],
                        drop  |-> [acc.drop EXCEPT ![i] = r.drop],
                        pass  |-> [acc.pass EXCEPT ![i] = r.pass],
                        order |-> Append(acc.order, i),
                        read  |-> [acc.read EXCEPT ![i] = acc.river[i]],
                        aborts |-> acc.aborts + (IF r.aborted THEN 1 ELSE 0)]
                       : r \in { NodeSolve(type, repeats,
                                     RAdd(acc.river[i], hill[i]),
                                     cap[i], epre[i], cell_areas[i]) } } } : TRUE

iterate_sde_downstream(type, repeats, hill, cap, epre, drop) ==
    RouterFrom(Len(s_in), type, repeats, hill, cap, epre,
        [river |-> ZeroField, dz |-> ZeroField,
         TL |-> [n \in Nodes |-> FALSE], rel |-> ZeroField,
         drop |-> drop, pass |-> ZeroField,
         order |-> <<>>, read |-> ZeroField,
         aborts |-> 0])

----------------------------------------------------------------------------
(* erode: the sub-step loop                                                *)

\* The most sub-steps of one call the model follows.
MaxSubsteps == 4

\* The nodes that indexing an array with is_flooded selects.
FloodedNodes(fl) == fl.nodes \cap Nodes

\* slopes_tothen[is_flooded] = 0. fails on an id that is no node.
FloodIndexError(fl) == fl.kind = "ids" /\ ~(fl.nodes \subseteq Nodes)

slopes_tothen(n_sp, slopes, fl) ==
    [n \in Nodes |->
        IF n \in FloodedNodes(fl) THEN Zero ELSE SlopePow(slopes[n], n_sp)]

\* slopes_tothent without the line that zeroes it at the flooded nodes.
slopes_tothent_unflooded(slopes, fl) ==
    [n \in Nodes |-> SlopePow(slopes[n], n_t)]

slopes_tothent(slopes, fl) ==
    [n \in Nodes |->
        IF n \in FloodedNodes(fl) THEN Zero ELSE SlopePow(slopes[n], n_t)]

TransportCapacities(slopes, fl) ==
    [n \in Nodes |->
        SlopeProduct(transport_capacity_prefactor_withA[n],
                     slopes_tothent(slopes, fl)[n])]

erosion_prefactor_withS(n_sp, slopes, fl) ==
    [n \in Nodes |->
        SlopeProduct(erosion_prefactor_withA[n],
                     slopes_tothen(n_sp, slopes, fl)[n])]

\* The difference taken the other way round: the node's rate less its
\* receiver's.
ratediff_reversed(dz) == [n \in Nodes |-> RSub(dz[n], dz[flow_receiver[n]])]

ratediff(dz) == [n \in Nodes |-> RSub(dz[flow_receiver[n]], dz[n])]

downstr_vert_diff(z) == [n \in Nodes |-> RSub(z[n], z[flow_receiver[n]])]

botharepositive(dz, z) ==
    {n \in Nodes : RGt(ratediff(dz)[n], Zero) /\ RGt(downstr_vert_diff(z)[n], Zero)}

\* np.amin over the converging pairs; with none np.amin raises ValueError
\* and the handler takes dt_secs.
ConvergenceTime(dz, z, secs) ==
    IF botharepositive(dz, z) = {} THEN secs
    ELSE AMin({RDiv(downstr_vert_diff(z)[n], ratediff(dz)[n])
                  : n \in botharepositive(dz, z)})

\* flood_node is set to None at the top of every pass and never again.
flood_node == "None"

\* t_to_converge as it stands when this_tstep is taken from it.
TToConverge(dz, z, secs, wave) ==
    LET t1 == RMul(ConvergenceTime(dz, z, secs), conv_factor)
        t2 == PyMin(t1, wave)
    IN  IF RLt(t2, <<3600, 1>>) /\ flood_node # "None" THEN <<3600, 1>> ELSE t2

\* this_tstep before the trim.
ChosenTstep(dz, z, secs, wave) == PyMin(TToConverge(dz, z, secs, wave), secs)

\* The last sub-step left as chosen.
UntrimmedTstep(chosen, elapsed, secs) == chosen

\* The last sub-step is cut back by what t_elapsed_internal overshot.
TrimmedTstep(chosen, elapsed, secs) == RSub(chosen, RSub(elapsed, secs))

\* The deposit of the sub-step added to the depth the field holds.
SedimentAccumulated(sed, drop, tstep) ==
    [n \in Nodes |->
        IF n \in node_at_cell
        THEN RAdd(sed[n], RMul(RDiv(drop[n], area_of_cell[n]), tstep))
        ELSE sed[n]]

\* channel_sediment__depth refilled at the nodes that own a cell.
SedimentAfter(sed, drop, tstep) ==
    [n \in Nodes |->
        IF n \in node_at_cell
        THEN RMul(RDiv(drop[n], area_of_cell[n]), tstep)
        ELSE sed[n]]

\* The update that leaves the rock surface where it was.
BedrockAfterNoIncision(bed, dz, tstep) == bed

\* elev_less_sed lowered by dzbydt * this_tstep at core nodes.
BedrockAfter(bed, dz, tstep) ==
    [n \in Nodes |->
        IF n \in core_nodes THEN RAdd(bed[n], RMul(dz[n], tstep)) ELSE bed[n]]

\* The rebuild written at every node of the grid.
ElevationAfterEveryNode(z, bed, sed) ==
    [n \in Nodes |-> RAdd(bed[n], sed[n])]

\* topographic__elevation rebuilt at core nodes.
ElevationAfter(z, bed, sed) ==
    [n \in Nodes |-> IF n \in core_nodes THEN RAdd(bed[n], sed[n]) ELSE z[n]]

\* The slopes taken up the links instead of down them.
ReslopedSlopesUphill(z) ==
    [n \in Nodes |->
        Clip(IF n \in core_draining_nodes
             THEN RDiv(RSub(z[flow_receiver[n]], z[n]), link_length[n])
             ELSE Zero, Zero)]

\* The slopes recomputed from the elevations just written, along the links
\* the flow router chose; the grid's slope field is left alone.
ReslopedSlopes(z) ==
    [n \in Nodes |->
        Clip(IF n \in core_draining_nodes
             THEN RDiv(RSub(z[n], z[flow_receiver[n]]), link_length[n])
             ELSE Zero, Zero)]

\* The counter taking up the refinements a pass gave up on.
AbortsCounted(count, given_up) == count + given_up

\* self._pseudoimplicit_aborts after a pass: the router is handed
\* pseudoimplicit_repeats and arrays, neither the component nor its
\* counter, and nothing it returns is kept, so the counter stays as
\* __init__ set it.
AbortsAfterPass(count, given_up) == count

\* The reslope writing into the array node_S was bound to on entry, the
\* grid's own.
SlopeFieldWrittenThrough(field, slopes) == slopes

\* The grid's topographic__steepest_slope after a reslope: node_S is bound
\* to a new array of zeros first, so the new slopes go to that array and the
\* grid's keeps its values.
SlopeFieldAfterReslope(field, slopes) == field

\* One pass of the while loop: the router pass, the choice of this_tstep,
\* the update of sediment, bedrock and elevation, and, unless the pass is
\* the last, the new slopes.
Substep ==
    /\ pc = "substep"
    /\ UNCHANGED map_vars
    /\ loopcounter < MaxSubsteps
    /\ IF FloodIndexError(is_flooded)
       THEN /\ pc' = "raised"
            /\ raised' = "IndexError"
            /\ UNCHANGED <<grid_vars, self_vars, local_vars, hist_vars>>
       ELSE \E cap \in {TransportCapacities(downward_slopes, is_flooded)},
               epre \in {erosion_prefactor_withS(sde.n, downward_slopes, is_flooded)} :
            \E r \in {iterate_sde_downstream(sde, sde.repeats,
                          hillslope_sediment_flux_wzeros, cap, epre, voldroprate)} :
            \E chosen \in {ChosenTstep(r.dz, topographic__elevation, dt_secs,
                                       max_tstep_wave)} :
            LET z       == topographic__elevation
                elapsed == RAdd(t_elapsed_internal, chosen)
                last    == RGe(elapsed, dt_secs)
                tstep   == IF last THEN TrimmedTstep(chosen, elapsed, dt_secs)
                           ELSE chosen
                sed  == SedimentAfter(channel_sediment__depth, r.drop, tstep)
                bed  == BedrockAfter(elev_less_sed, r.dz, tstep)
                znew == ElevationAfter(z, bed, sed)
            IN  /\ transport_capacities' = cap
                /\ river_volume_flux_into_node' = r.river
                /\ rel_sed_flux' = r.rel
                /\ sediment_passed' = r.pass
                /\ t_to_converge' = ConvergenceTime(r.dz, z, dt_secs)
                /\ dzbydt' = r.dz
                /\ is_it_TL' = r.TL
                /\ voldroprate' = r.drop
                /\ pseudoimplicit_aborts' =
                       AbortsAfterPass(pseudoimplicit_aborts, r.aborts)
                /\ t_elapsed_internal' = elapsed
                /\ break_flag' = last
                /\ this_tstep' = tstep
                /\ channel_sediment__depth' = sed
                /\ elev_less_sed' = bed
                /\ topographic__elevation' = znew
                /\ downward_slopes' =
                       IF last THEN downward_slopes ELSE ReslopedSlopes(znew)
                /\ applied' = Append(applied, tstep)
                /\ chosen_tsteps' = Append(chosen_tsteps, chosen)
                /\ ever_DL' = ever_DL \cup {n \in Nodes : ~r.TL[n]}
                /\ router_log' = [order |-> r.order, read |-> r.read,
                                   aborts |-> r.aborts]
                /\ loopcounter' = IF last THEN loopcounter ELSE loopcounter + 1
                /\ pc' = IF last THEN "return" ELSE "substep"
                /\ raised' = "none"
                /\ topographic__steepest_slope' =
                       IF last THEN topographic__steepest_slope
                       ELSE SlopeFieldAfterReslope(topographic__steepest_slope,
                                                   ReslopedSlopes(znew))
                /\ UNCHANGED <<has_sediment_field,
                               receiver_field, output_fields,
                               published_fields, declared_only_fields, sde,
                               hillslope_sediment_flux_wzeros, dt_secs,
                               is_flooded, max_tstep_wave,
                               z_initial, sed_initial>>

\* The return storing the incoming river flux in channel__discharge too.
DischargeFieldPublished(field, river) == river

\* channel__discharge after the return: the three stores of the return go
\* to the channel_sediment__ fields, none to this one.
DischargeFieldAfterReturn(field, river) == field

\* The statements after the loop: the outputs are published, erode returns.
Return ==
    /\ pc = "return"
    /\ UNCHANGED map_vars
    /\ pc' = "done"
    /\ channel_sediment__volumetric_transport_capacity' = transport_capacities
    /\ channel_sediment__volumetric_discharge' = river_volume_flux_into_node
    /\ channel_sediment__relative_flux' = rel_sed_flux
    /\ channel__discharge' =
           DischargeFieldAfterReturn(channel__discharge,
                                     river_volume_flux_into_node)
    /\ UNCHANGED <<raised, channel__bed_shear_stress, topographic__elevation, topographic__steepest_slope,
                   channel_sediment__depth, has_sediment_field, receiver_field,
                   output_fields, self_vars, local_vars, hist_vars>>

----------------------------------------------------------------------------
Next ==
    \/ \E type \in TypeChoices, runoff \in RunoffChoices, Qc \in QcChoices,
          n \in NspChoices, repeats \in RepeatChoices :
           Construct(type, runoff, Qc, n, repeats)
    \/ \E kind \in {"single", "multi"} : RunFlowRouter(kind)
    \/ \E dt \in DtChoices, fl \in FloodChoices : EnterErode(dt, fl)
    \/ Substep
    \/ Return

Spec == Init /\ [][Next]_vars

----------------------------------------------------------------------------
(* A second specification, for termination: the calls of erode on a bare   *)
(* bed (no sediment anywhere) with the headwater node flooded, for 1 and   *)
(* 3 seconds.  erode is sequential code: once entered, its loop and its    *)
(* return are taken, hence the weak fairness.  The model follows a call    *)
(* for MaxSubsteps passes; StoppedCallsCannotFinish shows what the calls   *)
(* it stops following have in common.                                      *)

LiveDtChoices == {RDiv(<<1, 1>>, Year), RDiv(<<3, 1>>, Year)}

LiveFloodChoices ==
    { [kind |-> "mask", size |-> number_of_nodes, nodes |-> {2}],
      [kind |-> "ids", size |-> 1, nodes |-> {2}] }

InitLive == Init /\ channel_sediment__depth = ZeroField

NextLive ==
    \/ \E type \in TypeChoices, runoff \in RunoffChoices, Qc \in QcChoices,
          n \in NspChoices, repeats \in RepeatChoices :
           Construct(type, runoff, Qc, n, repeats)
    \/ \E kind \in {"single", "multi"} : RunFlowRouter(kind)
    \/ \E dt \in LiveDtChoices, fl \in LiveFloodChoices : EnterErode(dt, fl)
    \/ Substep
    \/ Return

LiveSpec ==
    InitLive /\ [][NextLive]_vars /\ WF_vars(Substep) /\ WF_vars(Return)

----------------------------------------------------------------------------
(* A third specification, for the refinement at detachment-limited nodes:  *)
(* the component built with sed_dependency_type = 'linear_decline', whose  *)
(* response f = 1 - Qs/Qc changes from one refinement pass to the next.    *)

RefineTypeChoices == {"linear_decline"}

\* dt of one second and of half a second.
RefineDtChoices == {RDiv(<<1, 1>>, Year), RDiv(<<1, 2>>, Year)}

NextRefine ==
    \/ \E type \in RefineTypeChoices, runoff \in RunoffChoices, Qc \in QcChoices,
          n \in NspChoices, repeats \in RepeatChoices :
           Construct(type, runoff, Qc, n, repeats)
    \/ \E kind \in {"single", "multi"} : RunFlowRouter(kind)
    \/ \E dt \in RefineDtChoices, fl \in FloodChoices : EnterErode(dt, fl)
    \/ Substep
    \/ Return

RefineSpec == Init /\ [][NextRefine]_vars

----------------------------------------------------------------------------
(* A fourth specification, for the normalisation of the humped response:   *)
(* the component built with sed_dependency_type = 'generalized_humped'.    *)

HumpTypeChoices == {"generalized_humped"}

NextHump ==
    \/ \E type \in HumpTypeChoices, runoff \in RunoffChoices, Qc \in QcChoices,
          n \in NspChoices, repeats \in RepeatChoices :
           Construct(type, runoff, Qc, n, repeats)
    \/ \E kind \in {"single", "multi"} : RunFlowRouter(kind)
    \/ \E dt \in RefineDtChoices, fl \in FloodChoices : EnterErode(dt, fl)
    \/ Substep
    \/ Return

HumpSpec == InitLive /\ [][NextHump]_vars

----------------------------------------------------------------------------
(* mappers.py: each mapper as the array it computes from the fields of the *)
(* raster grid.                                                            *)

\* a[i] for a Python index i into an array of len entries: -1 is the last.
PyIndex(a, i, len) == IF i < 0 THEN a[len + i] ELSE a[i]

\* grid.at_link[var_name][grid.links_at_node] * grid.link_dirs_at_node: an
\* empty slot fetches the last link's value and multiplies it by 0.
values_at_links(link_values) ==
    [n \in RmgNodes |->
        [k \in Slots |->
            RMul(PyIndex(link_values, links_at_node[n][k], number_of_links),
                 <<link_dirs_at_node[n][k], 1>>)]]

RMaxOf(S) == CHOOSE m \in S : \A x \in S : ~RLt(m, x)

\* np.amax over the values S of a non-empty array.
AMax(S) == IF NaN \in S THEN NaN ELSE RMaxOf(S)

\* np.minimum and np.maximum of two values.
Minimum(a, b) == IF NaN \in {a, b} THEN NaN ELSE IF RLt(b, a) THEN b ELSE a

Maximum(a, b) == IF NaN \in {a, b} THEN NaN ELSE IF RGt(b, a) THEN b ELSE a

\* np.finfo(float).max and .min: beyond every value of the fields.
finfo_max == <<2147483647, 1>>

finfo_min == <<-2147483647, 1>>

map_link_head_node_to_link(values_at_nodes) ==
    [l \in RmgLinks |-> values_at_nodes[node_at_link_head[l]]]

map_link_tail_node_to_link(values_at_nodes) ==
    [l \in RmgLinks |-> values_at_nodes[node_at_link_tail[l]]]

map_min_of_link_nodes_to_link(values_at_nodes) ==
    [l \in RmgLinks |-> Minimum(values_at_nodes[node_at_link_head[l]],
                               values_at_nodes[node_at_link_tail[l]])]

map_max_of_link_nodes_to_link(values_at_nodes) ==
    [l \in RmgLinks |-> Maximum(values_at_nodes[node_at_link_head[l]],
                               values_at_nodes[node_at_link_tail[l]])]

map_mean_of_link_nodes_to_link(values_at_nodes) ==
    [l \in RmgLinks |-> RMul(<<1, 2>>,
                            RAdd(values_at_nodes[node_at_link_head[l]],
                                 values_at_nodes[node_at_link_tail[l]]))]

map_value_at_min_node_to_link(control, values) ==
    [l \in RmgLinks |->
        IF RLt(control[node_at_link_tail[l]], control[node_at_link_head[l]])
        THEN values[node_at_link_tail[l]] ELSE values[node_at_link_head[l]]]

map_value_at_max_node_to_link(control, values) ==
    [l \in RmgLinks |->
        IF RGt(control[node_at_link_tail[l]], control[node_at_link_head[l]])
        THEN values[node_at_link_tail[l]] ELSE values[node_at_link_head[l]]]

map_node_to_cell(values_at_nodes) ==
    [c \in RmgCells |-> values_at_nodes[rmg_node_at_cell[c]]]

\* values_at_linksX: the link values with one more entry, which an empty
\* slot's -1 fetches.
values_at_linksX(link_values, last) ==
    [l \in 0..number_of_links |->
        IF l = number_of_links THEN last ELSE link_values[l]]

map_min_of_node_links_to_node(link_values) ==
    [n \in RmgNodes |->
        AMin({ PyIndex(values_at_linksX(link_values, finfo_max),
                       links_at_node[n][k], number_of_links + 1)
               : k \in Slots })]

map_max_of_node_links_to_node(link_values) ==
    [n \in RmgNodes |->
        AMax({ PyIndex(values_at_linksX(link_values, finfo_min),
                       links_at_node[n][k], number_of_links + 1)
               : k \in Slots })]

map_upwind_node_link_max_to_node(link_values) ==
    [n \in RmgNodes |->
        AMax({ RNeg(values_at_links(link_values)[n][k]) : k \in Slots })]

map_downwind_node_link_max_to_node(link_values) ==
    [n \in RmgNodes |->
        RAbs(AMax({ values_at_links(link_values)[n][k] : k \in Slots }))]

\* np.sum along a row of four.
RowSum(row) == RAdd(RAdd(RAdd(row[1], row[2]), row[3]), row[4])

\* The mean of the positive entries of a row; 0 / 0 is NaN, which the
\* mapper then sets to 0.
MeanOfPositive(row) ==
    LET total == RowSum([k \in Slots |-> IF RGt(row[k], Zero) THEN row[k] ELSE Zero])
        link_count == Cardinality({k \in Slots : RGt(row[k], Zero)})
        mean == RDiv(total, <<link_count, 1>>)
    IN  IF IsNaN(mean) THEN Zero ELSE mean

map_upwind_node_link_mean_to_node(link_values) ==
    [n \in RmgNodes |->
        MeanOfPositive([k \in Slots |-> RNeg(values_at_links(link_values)[n][k])])]

map_downwind_node_link_mean_to_node(link_values) ==
    [n \in RmgNodes |-> MeanOfPositive(values_at_links(link_values)[n])]

\* np.argmax along a row: the first slot that holds the largest value.
ArgMax(row) ==
    CHOOSE k \in Slots :
        /\ \A j \in Slots : ~RLt(row[k], row[j])
        /\ \A j \in Slots : j < k => RLt(row[j], row[k])

map_value_at_upwind_node_link_max_to_node(control, values) ==
    [n \in RmgNodes |->
        LET row == values_at_links(control)[n]
            which_link == ArgMax([k \in Slots |-> RNeg(row[k])])
        IN  IF RGe(row[which_link], Zero) THEN Zero
            ELSE PyIndex(values, links_at_node[n][which_link], number_of_links)]

map_value_at_downwind_node_link_max_to_node(control, values) ==
    [n \in RmgNodes |->
        LET row == values_at_links(control)[n]
            which_link == ArgMax(row)
        IN  IF RLe(row[which_link], Zero) THEN Zero
            ELSE PyIndex(values, links_at_node[n][which_link], number_of_links)]

link_at_node_is_upwind(link_values) ==
    [n \in RmgNodes |->
        [k \in Slots |-> RLt(values_at_links(link_values)[n][k], Zero)]]

link_at_node_is_downwind(link_values) ==
    [n \in RmgNodes |->
        [k \in Slots |-> RGt(values_at_links(link_values)[n][k], Zero)]]

\* The entries of a row of four that satisfy keep, in slot order.
RECURSIVE Kept(_, _, _)
Kept(row, keep, k) ==
    IF k > 4 THEN <<>>
    ELSE (IF keep[k] THEN <<row[k]>> ELSE <<>>) \o Kept(row, keep, k + 1)

\* a[:stop] for a Python stop: a negative stop counts from the end, and -0
\* is 0.
PySliceTo(a, stop) ==
    LET end == IF stop < 0 THEN Len(a) + stop ELSE stop
    IN  SubSeq(a, 1, IF end > Len(a) THEN Len(a) ELSE IF end < 0 THEN 0 ELSE end)

\* unordered_IDs holds the link of every slot flagged in wind and bad_index
\* in the others; each row is sorted so that its bad entries come last
\* (argsort of the booleans, which keeps the slot order within each group)
\* and the rows are cut by the least number of bad entries of any row.
wind_links_at_node(wind, bad) ==
    LET unordered_IDs ==
            [n \in RmgNodes |->
                [k \in Slots |-> IF wind[n][k] THEN links_at_node[n][k]
                                 ELSE bad]]
        bad_IDs == [n \in RmgNodes |->
                       [k \in Slots |-> unordered_IDs[n][k] = bad]]
        big_ordered_array ==
            [n \in RmgNodes |->
                Kept(unordered_IDs[n], [k \in Slots |-> ~bad_IDs[n][k]], 1)
                    \o Kept(unordered_IDs[n], bad_IDs[n], 1)]
        bad_count(n) == Cardinality({k \in Slots : bad_IDs[n][k]})
        cols_to_cut == CHOOSE c \in {bad_count(n) : n \in RmgNodes} :
                           \A n \in RmgNodes : c <= bad_count(n)
    IN  [n \in RmgNodes |-> PySliceTo(big_ordered_array[n], -cols_to_cut)]

upwind_links_at_node(link_values, bad) ==
    wind_links_at_node(link_at_node_is_upwind(link_values), bad)

downwind_links_at_node(link_values, bad) ==
    wind_links_at_node(link_at_node_is_downwind(link_values), bad)

LinkMappers ==
    { "map_link_head_node_to_link", "map_link_tail_node_to_link",
      "map_min_of_link_nodes_to_link", "map_max_of_link_nodes_to_link",
      "map_mean_of_link_nodes_to_link", "map_value_at_min_node_to_link",
      "map_value_at_max_node_to_link" }

NodeMappers ==
    { "map_min_of_node_links_to_node", "map_max_of_node_links_to_node",
      "map_upwind_node_link_max_to_node", "map_downwind_node_link_max_to_node",
      "map_upwind_node_link_mean_to_node",
      "map_downwind_node_link_mean_to_node",
      "map_value_at_upwind_node_link_max_to_node",
      "map_value_at_downwind_node_link_max_to_node" }

BooleanMappers == {"link_at_node_is_upwind", "link_at_node_is_downwind"}

LinksAtNodeFunctions == {"upwind_links_at_node", "downwind_links_at_node"}

BadIndexChoices == {-1, 2147483647}

\* What mapper m computes from the grid's fields.
MapperResult(m) ==
    CASE m = "map_link_head_node_to_link" -> map_link_head_node_to_link(at_node.z)
      [] m = "map_link_tail_node_to_link" -> map_link_tail_node_to_link(at_node.z)
      [] m = "map_min_of_link_nodes_to_link" ->
             map_min_of_link_nodes_to_link(at_node.z)
      [] m = "map_max_of_link_nodes_to_link" ->
             map_max_of_link_nodes_to_link(at_node.z)
      [] m = "map_mean_of_link_nodes_to_link" ->
             map_mean_of_link_nodes_to_link(at_node.z)
      [] m = "map_value_at_min_node_to_link" ->
             map_value_at_min_node_to_link(at_node.z, at_node.vals_to_map)
      [] m = "map_value_at_max_node_to_link" ->
             map_value_at_max_node_to_link(at_node.z, at_node.vals_to_map)
      [] m = "map_node_to_cell" -> map_node_to_cell(at_node.z)
      [] m = "map_min_of_node_links_to_node" ->
             map_min_of_node_links_to_node(at_link.grad)
      [] m = "map_max_of_node_links_to_node" ->
             map_max_of_node_links_to_node(at_link.grad)
      [] m = "map_upwind_node_link_max_to_node" ->
             map_upwind_node_link_max_to_node(at_link.grad)
      [] m = "map_downwind_node_link_max_to_node" ->
             map_downwind_node_link_max_to_node(at_link.grad)
      [] m = "map_upwind_node_link_mean_to_node" ->
             map_upwind_node_link_mean_to_node(at_link.grad)
      [] m = "map_downwind_node_link_mean_to_node" ->
             map_downwind_node_link_mean_to_node(at_link.grad)
      [] m = "map_value_at_upwind_node_link_max_to_node" ->
             map_value_at_upwind_node_link_max_to_node(at_link.grad, at_link.vals)
      [] m = "map_value_at_downwind_node_link_max_to_node" ->
             map_value_at_downwind_node_link_max_to_node(at_link.grad,
                                                         at_link.vals)
      [] m = "link_at_node_is_upwind" -> link_at_node_is_upwind(at_link.grad)
      [] m = "link_at_node_is_downwind" -> link_at_node_is_downwind(at_link.grad)

\* A buffer of the mapper's shape as the caller hands it over: what it
\* holds is never read.
EmptyLike(result) == [i \in DOMAIN result |-> NaN]

\* if out is None: out = grid.empty(...); the result is written into out;
\* return out.
CallWithOut(m, use_out) ==
    /\ called = "none"
    /\ called' = m
    /\ mapper_raised' = "none"
    /\ out' = IF use_out THEN [passed |-> TRUE, values |-> MapperResult(m)]
              ELSE NoBuffer
    /\ rtn' = [is_out |-> use_out, values |-> MapperResult(m)]
    /\ UNCHANGED <<at_node, at_link, bad_index>>

CallLinkMapper(m, use_out) ==
    /\ m \in LinkMappers
    /\ CallWithOut(m, use_out)
    /\ UNCHANGED <<pc, raised, grid_vars, self_vars, local_vars, hist_vars>>

CallCellMapper(use_out) ==
    /\ CallWithOut("map_node_to_cell", use_out)
    /\ UNCHANGED <<pc, raised, grid_vars, self_vars, local_vars, hist_vars>>

CallNodeMapper(m, use_out) ==
    /\ m \in NodeMappers
    /\ CallWithOut(m, use_out)
    /\ UNCHANGED <<pc, raised, grid_vars, self_vars, local_vars, hist_vars>>

\* The two asserts on a buffer that is handed over compare with "is": the
\* shape tuple of the buffer and that of links_at_node are two objects, and
\* a numpy dtype is not the type bool.
OutAssertsHold == FALSE

\* link_at_node_is_upwind and link_at_node_is_downwind: with no buffer a
\* new boolean array; with one, the asserts come first.
CallBooleanMapper(m, use_out) ==
    /\ m \in BooleanMappers
    /\ called = "none"
    /\ called' = m
    /\ IF use_out /\ ~OutAssertsHold
       THEN /\ mapper_raised' = "AssertionError"
            /\ out' = [passed |-> TRUE, values |-> EmptyLike(MapperResult(m))]
            /\ rtn' = NoReturn
       ELSE /\ mapper_raised' = "none"
            /\ out' = IF use_out
                      THEN [passed |-> TRUE, values |-> MapperResult(m)]
                      ELSE NoBuffer
            /\ rtn' = [is_out |-> use_out, values |-> MapperResult(m)]
    /\ UNCHANGED <<at_node, at_link, bad_index>>
    /\ UNCHANGED <<pc, raised, grid_vars, self_vars, local_vars, hist_vars>>

\* upwind_links_at_node and downwind_links_at_node take no buffer.
CallLinksAtNode(m, bad) ==
    /\ m \in LinksAtNodeFunctions
    /\ called = "none"
    /\ called' = m
    /\ mapper_raised' = "none"
    /\ bad_index' = bad
    /\ rtn' = [is_out |-> FALSE,
               values |-> IF m = "upwind_links_at_node"
                          THEN upwind_links_at_node(at_link.grad, bad)
                          ELSE downwind_links_at_node(at_link.grad, bad)]
    /\ UNCHANGED <<at_node, at_link, out>>
    /\ UNCHANGED <<pc, raised, grid_vars, self_vars, local_vars, hist_vars>>

\* The raster grid with its fields set, no erosion component in play, and
\* no mapper called yet.
InitMappers ==
    /\ InitErode
    /\ topographic__elevation = CHOOSE z \in ElevChoices : z[1] = One
    /\ ~has_sediment_field
    /\ receiver_field = "absent"
    /\ at_node \in {[z |-> z, vals_to_map |-> vals_to_map_of(z)] : z \in ZChoices}
    /\ at_link \in {[grad |-> g, vals |-> vals_arange] : g \in GradChoices}
    /\ called = "none"
    /\ out = NoBuffer
    /\ bad_index = -1
    /\ rtn = NoReturn
    /\ mapper_raised = "none"

NextMappers ==
    \/ \E m \in LinkMappers, use_out \in BOOLEAN : CallLinkMapper(m, use_out)
    \/ \E use_out \in BOOLEAN : CallCellMapper(use_out)
    \/ \E m \in NodeMappers, use_out \in BOOLEAN : CallNodeMapper(m, use_out)
    \/ \E m \in BooleanMappers, use_out \in BOOLEAN : CallBooleanMapper(m, use_out)
    \/ \E m \in LinksAtNodeFunctions, bad \in BadIndexChoices :
           CallLinksAtNode(m, bad)

MapSpec == InitMappers /\ [][NextMappers]_vars

----------------------------------------------------------------------------
(* Properties.                                                             *)

RECURSIVE SumSeq(_)
SumSeq(s) == IF s = <<>> THEN Zero ELSE RAdd(Head(s), SumSeq(Tail(s)))

\* erode has left its loop through the break.
LoopLeft == pc \in {"return", "done"}

\* erode is past at least one pass of its loop.
AfterSubstep == pc \in {"substep", "return", "done"} /\ Len(applied) >= 1

PositiveDt == RGt(dt_secs, Zero)

\* h + (z_initial - z_final) at node n.
SedimentPlusLowering(n) ==
    RAdd(channel_sediment__depth[n],
         RSub(z_initial[n], topographic__elevation[n]))

\* C1: for dt > 0 the sub-steps applied never add up to more than dt_secs;
\* every sub-step but the last is applied as chosen, the last is cut back,
\* and when the loop is left the applied sub-steps add up to dt_secs
\* exactly.
C1_SubstepsSumToDt ==
    (pc \in {"substep", "return", "done"} /\ PositiveDt) =>
        /\ RLe(SumSeq(applied), dt_secs)
        /\ \A k \in 1..Len(applied) :
               (k < Len(applied) \/ pc = "substep") => applied[k] = chosen_tsteps[k]
        /\ LoopLeft =>
               /\ SumSeq(applied) = dt_secs
               /\ RLe(applied[Len(applied)], chosen_tsteps[Len(applied)])

\* A call of several sub-steps whose last sub-step was cut back.
C1_Witness ==
    /\ pc = "done" /\ PositiveDt
    /\ Len(applied) >= 2
    /\ RLt(applied[Len(applied)], chosen_tsteps[Len(applied)])

Stopped == pc = "substep" /\ loopcounter = MaxSubsteps

\* In LiveSpec every call still in its loop after MaxSubsteps passes has
\* n_sp = 0, every sub-step so far strictly positive, and the time at which
\* the converging pair of nodes meets (at the rates of the last pass, which
\* with n_sp = 0 do not depend on the slopes) before dt_secs.  Each further
\* sub-step is at most conv_factor of what is left to that time, so
\* t_elapsed_internal stays below it, below dt_secs, for ever.
StoppedCallsCannotFinish ==
    Stopped =>
        /\ sde.n = Zero
        /\ \A k \in 1..Len(applied) : RGt(applied[k], Zero)
        /\ botharepositive(dzbydt, topographic__elevation) # {}
        /\ RLt(RAdd(t_elapsed_internal,
                    ConvergenceTime(dzbydt, topographic__elevation, dt_secs)),
               dt_secs)

\* C3: for dt > 0, at the return of erode every core node flagged
\* transport-limited has sediment depth plus net lowering equal to its
\* initial sediment depth: its bedrock is where it was.
C3_TLAtReturnKeepsBedrock ==
    (pc = "done" /\ PositiveDt) =>
        \A n \in core_nodes :
            is_it_TL[n] => SedimentPlusLowering(n) = sed_initial[n]

\* What erode keeps instead: is_it_TL is rewritten by every pass, and the
\* bedrock is where it was at the core nodes that every pass of the call
\* found transport-limited.
TLThroughoutKeepsBedrock ==
    (pc = "done" /\ PositiveDt) =>
        \A n \in core_nodes :
            n \notin ever_DL => SedimentPlusLowering(n) = sed_initial[n]

\* A call that returns with a core node flagged transport-limited which an
\* earlier pass found detachment-limited.
TLOnlyAtReturn ==
    /\ pc = "done" /\ PositiveDt
    /\ \E n \in core_nodes : is_it_TL[n] /\ n \in ever_DL

\* C4: at the return of erode every core node flagged detachment-limited
\* has net lowering strictly above its initial sediment depth.
C4_DLLoweringExceedsH0 ==
    pc = "done" =>
        \A n \in core_nodes :
            ~is_it_TL[n] =>
                RGt(RSub(z_initial[n], topographic__elevation[n]), sed_initial[n])

\* A call on a sediment-covered bed that returns with a detachment-limited
\* core node.
C4_Witness ==
    /\ pc = "done"
    /\ \E n \in core_nodes : ~is_it_TL[n] /\ RGt(sed_initial[n], Zero)

\* The flux that arrived at node n in the last pass: from upstream and from
\* its own cell.
Arriving(n) ==
    RAdd(IF flow_receiver[n] = n
         THEN RSub(river_volume_flux_into_node[n], sediment_passed[n])
         ELSE river_volume_flux_into_node[n],
         hillslope_sediment_flux_wzeros[n])

\* C5: after every pass, every flooded node has transport capacity 0 and
\* dz/dt 0, is flagged transport-limited, has all the flux that arrived at
\* it as its deposition rate, and has passed nothing on.
C5_FloodedNodesTrapSediment ==
    AfterSubstep =>
        \A n \in FloodedNodes(is_flooded) :
            /\ transport_capacities[n] = Zero
            /\ dzbydt[n] = Zero
            /\ is_it_TL[n]
            /\ voldroprate[n] = RMul(Arriving(n), porosity)
            /\ sediment_passed[n] = Zero

\* A flooded node draining to a node that is not flooded, with sediment
\* arriving at it.
C5_Witness ==
    /\ AfterSubstep
    /\ \E n \in FloodedNodes(is_flooded) :
           /\ flow_receiver[n] \notin FloodedNodes(is_flooded)
           /\ RGt(Arriving(n), Zero)
           /\ RGt(voldroprate[n], Zero)

\* C6: a call with dt = 0 returns with elevation and sediment depth as
\* they were on entry.
C6_ZeroDtIsIdentity ==
    (pc = "done" /\ dt_secs = Zero) =>
        /\ topographic__elevation = z_initial
        /\ channel_sediment__depth = sed_initial

\* C7: whenever an exception has been raised, elevation and sediment depth
\* are as they were before the call.
C7_RaiseLeavesFieldsUntouched ==
    pc = "raised" =>
        /\ topographic__elevation = z_initial
        /\ channel_sediment__depth = sed_initial

\* C8: with a receiver array of another size than the node count, the
\* constructor raises NotImplementedError, and so does erode when the
\* router was run after construction; neither changes a field.
C8_MultiReceiverRejected ==
    [][ /\ (pc = "new" /\ receiver_field = "multi") =>
               /\ pc' = "raised" /\ raised' = "NotImplementedError"
               /\ UNCHANGED grid_vars
        /\ (pc = "idle" /\ receiver_field = "multi" /\ pc' # "idle") =>
               /\ pc' = "raised" /\ raised' = "NotImplementedError"
               /\ UNCHANGED grid_vars ]_vars

\* erode has refused a grid whose router was run after construction.
C8_Witness ==
    /\ pc = "raised" /\ raised = "NotImplementedError"
    /\ sde # NoComponent
    /\ receiver_field = "multi"

\* The arguments of the constructor that C9 names.
Unsupported(type, runoff, Qc) ==
    \/ type \notin SupportedTypes
    \/ Qc # "power_law"
    \/ runoff = "short_array"

\* C9: the constructor called with an unsupported family name, an
\* unsupported transport law or a runoff array of the wrong size raises,
\* and leaves every field of the grid as it was: no sediment depth field
\* and no output field is created.
C9_ConstructorFailsBeforeGridChange ==
    [][ \A type \in TypeChoices, runoff \in RunoffChoices, Qc \in QcChoices,
           n \in NspChoices, repeats \in RepeatChoices :
            (Construct(type, runoff, Qc, n, repeats)
                 /\ Unsupported(type, runoff, Qc)) =>
                (pc' = "raised" /\ raised' # "none" /\ UNCHANGED grid_vars) ]_vars

\* The constructor has raised on a grid that had no sediment depth field,
\* and the grid still has none.
C9_Witness ==
    /\ pc = "raised" /\ sde = NoComponent
    /\ raised \in {"AssertionError", "NameError"}
    /\ receiver_field # "multi"
    /\ ~has_sediment_field /\ ~output_fields

\* C10: after every pass and at the return of erode, at every node the
\* elevation is the bedrock elevation (elev_less_sed) plus the sediment
\* depth.
C10_ElevationIsBedrockPlusSediment ==
    AfterSubstep =>
        \A n \in Nodes :
            topographic__elevation[n] =
                RAdd(elev_less_sed[n], channel_sediment__depth[n])

\* C11: the sediment depth is non-negative at every node, in every state
\* of every call that started from a non-negative field.
C11_SedimentNonNegative ==
    \A n \in Nodes : RGe(channel_sediment__depth[n], Zero)

\* What the code keeps: for dt > 0 the deposition rate of every pass, every
\* applied sub-step and the sediment depth are non-negative.
SedimentNonNegativeForPositiveDt ==
    (AfterSubstep /\ PositiveDt) =>
        /\ \A n \in Nodes : RGe(voldroprate[n], Zero)
        /\ \A k \in 1..Len(applied) : RGe(applied[k], Zero)
        /\ \A n \in Nodes : RGe(channel_sediment__depth[n], Zero)

\* C12: in every state of an erode call every node that is not a core node
\* has the elevation and the bedrock elevation it had on entry.
C12_BoundaryNodesKeepElevation ==
    pc \in {"substep", "return", "done"} =>
        \A n \in Nodes \ core_nodes :
            /\ topographic__elevation[n] = z_initial[n]
            /\ elev_less_sed[n] = RSub(z_initial[n], sed_initial[n])

\* A pass with a positive sub-step in which the router gave a boundary node
\* a nonzero dz/dt, on a grid whose boundary nodes held sediment.
C12_Witness ==
    /\ AfterSubstep
    /\ RGt(this_tstep, Zero)
    /\ \E n \in Nodes \ core_nodes :
           dzbydt[n] # Zero /\ RGt(sed_initial[n], Zero)
    /\ \E n \in core_nodes : topographic__elevation[n] # z_initial[n]

\* The step is a pass of the loop of erode.
IsPass == pc = "substep" /\ Len(applied') = Len(applied) + 1

\* No (node, receiver) pair converges in the pass the step takes: the rates
\* are those the pass computes, the elevations those it starts from.
NoPairConverges == botharepositive(dzbydt', topographic__elevation) = {}

\* What is left of dt_secs when the pass starts.
RemainingTime == RSub(dt_secs, t_elapsed_internal)

\* C13: a pass in which no pair converges applies a sub-step equal to the
\* smaller of the wave bound and the remaining time.
C13_NoPairNoBound ==
    [][ (IsPass /\ NoPairConverges) =>
            applied'[Len(applied')] = PyMin(max_tstep_wave, RemainingTime) ]_vars

\* What the code does: with no converging pair t_to_converge is dt_secs,
\* and conv_factor is applied to it as to any convergence time.
NoPairTakesConvFactorOfDt ==
    [][ (IsPass /\ NoPairConverges) =>
            applied'[Len(applied')] =
                PyMin(PyMin(PyMin(RMul(dt_secs, conv_factor), max_tstep_wave),
                            dt_secs),
                      RemainingTime) ]_vars

\* C14: when erode(dt > 0) has returned, the published relative flux is, at
\* every node where the published capacity is not zero, the published
\* discharge into the node divided by the published capacity.
C14_RelativeFluxIsDischargeOverCapacity ==
    (pc = "done" /\ PositiveDt) =>
        \A n \in Nodes :
            channel_sediment__volumetric_transport_capacity[n] # Zero =>
                channel_sediment__relative_flux[n] =
                    RDiv(channel_sediment__volumetric_discharge[n],
                         channel_sediment__volumetric_transport_capacity[n])

\* What the code publishes: the three arrays of the last pass, the relative
\* flux being the router's own array.
PublishedAreLastPass ==
    pc = "done" =>
        /\ channel_sediment__volumetric_transport_capacity = transport_capacities
        /\ channel_sediment__volumetric_discharge = river_volume_flux_into_node
        /\ channel_sediment__relative_flux = rel_sed_flux

\* C15: a successful construction leaves the grid with the field
\* channel_sediment__depth: all zeros when the grid had none, the values it
\* had when it had one.  That field is the sediment erode works on: on entry
\* erode takes the bedrock surface and the supply rate from it, and every
\* pass writes the depth at the cell nodes back into it.
C15_SedimentFieldKeptOrCreated ==
    [][ /\ (pc = "new" /\ pc' = "idle") =>
                /\ has_sediment_field'
                /\ channel_sediment__depth' =
                       IF has_sediment_field THEN channel_sediment__depth
                       ELSE ZeroField
        /\ (pc = "idle" /\ pc' = "substep") =>
                /\ elev_less_sed' =
                       [n \in Nodes |-> RSub(topographic__elevation[n],
                                             channel_sediment__depth[n])]
                /\ \A n \in node_at_cell :
                       hillslope_sediment_flux_wzeros'[n] =
                           RDiv(RMul(channel_sediment__depth[n], area_of_cell[n]),
                                dt_secs')
        /\ IsPass =>
                \A n \in node_at_cell :
                    channel_sediment__depth'[n] =
                        RMul(RDiv(voldroprate'[n], area_of_cell[n]), this_tstep')
      ]_vars

\* erode has run for dt > 0 on a grid that came with sediment in the field
\* and has left sediment in it.
C15_Witness ==
    /\ pc = "done"
    /\ PositiveDt
    /\ \E n \in node_at_cell : RGt(sed_initial[n], Zero)
    /\ \E n \in node_at_cell : RGt(channel_sediment__depth[n], Zero)

\* The pairs (n, receiver of n) in which n stands strictly above its
\* receiver and dz/dt of the receiver exceeds dz/dt of n: n comes down on
\* its receiver.
ClosingPairs(dz, z) ==
    {n \in Nodes : /\ RGt(dz[flow_receiver[n]], dz[n])
                   /\ RGt(z[n], z[flow_receiver[n]])}

\* The time at which n and its receiver would stand level.
ClosingTime(dz, z, n) ==
    RDiv(RSub(z[n], z[flow_receiver[n]]), RSub(dz[flow_receiver[n]], dz[n]))

\* The pairs in which n stands strictly above its receiver and dz/dt of n
\* exceeds dz/dt of its receiver.
NodeRateExceedsPairs(dz, z) ==
    {n \in Nodes : /\ RGt(dz[n], dz[flow_receiver[n]])
                   /\ RGt(z[n], z[flow_receiver[n]])}

NodeRateExceedsTime(dz, z, n) ==
    RDiv(RSub(z[n], z[flow_receiver[n]]), RSub(dz[n], dz[flow_receiver[n]]))

\* C19, with the rates as signed dz/dt: in every pass with a pair whose
\* node stands strictly above its receiver while the receiver's dz/dt
\* exceeds the node's, the convergence bound is the least crossing time of
\* these pairs, every one of which is strictly positive; no other pair
\* counts.
C19_BoundIsLeastClosingTime ==
    [][ IsPass =>
          LET P == ClosingPairs(dzbydt', topographic__elevation) IN
          /\ \A n \in P :
                 RGt(ClosingTime(dzbydt', topographic__elevation, n), Zero)
          /\ P # {} =>
                 t_to_converge' =
                     AMin({ClosingTime(dzbydt', topographic__elevation, n)
                              : n \in P})
      ]_vars

\* After the first pass: two pairs close, at different times, and the
\* bound is the earlier one.
C19_Witness ==
    /\ AfterSubstep
    /\ Len(applied) = 1
    /\ \E n, q \in ClosingPairs(dzbydt, z_initial) :
           /\ t_to_converge = ClosingTime(dzbydt, z_initial, n)
           /\ RLt(ClosingTime(dzbydt, z_initial, n),
                  ClosingTime(dzbydt, z_initial, q))

\* The statement with the comparison of the rates as written: the pairs
\* are those in which dz/dt of the node exceeds dz/dt of its receiver.
C19_NodeRateExceeds ==
    [][ IsPass =>
          LET P == NodeRateExceedsPairs(dzbydt', topographic__elevation) IN
          P # {} =>
             t_to_converge' =
                 AMin({NodeRateExceedsTime(dzbydt', topographic__elevation, n)
                          : n \in P})
      ]_vars

\* The least, over the core nodes that drain to another node, of the link
\* length over K A^m, times slope^(n_sp - 1) when n_sp is not 1.
WaveBound(n_sp, slopes) ==
    RMinOf({ RDiv(length_of_d8,
                  IF n_sp = One THEN erosion_prefactor_withA[n]
                  ELSE RMul(erosion_prefactor_withA[n],
                            SlopePow(slopes[n], RSub(n_sp, One))))
             : n \in core_draining_nodes })

\* erode enters its loop.
IsEntry == pc = "idle" /\ pc' = "substep"

\* The least crossing time of the pairs that close, and no bound at all
\* when none does.
ConvergenceBound(dz, z) ==
    IF ClosingPairs(dz, z) = {} THEN Inf
    ELSE AMin({ClosingTime(dz, z, n) : n \in ClosingPairs(dz, z)})

\* min(0.3 x convergence bound b, 0.2 x wave bound, remaining time).
MinOfThree(b) ==
    PyMin(PyMin(RMul(b, conv_factor), max_tstep_wave), RemainingTime)

\* C20: on entry max_tstep_wave is 0.2 times the wave bound, the least
\* over the core draining nodes only; in every pass the sub-step applied
\* is min(0.3 x convergence bound, 0.2 x wave bound, remaining time), the
\* convergence bound being the least crossing time of the closing pairs.
C20_SubstepIsMinOfThree ==
    [][ /\ IsEntry =>
               max_tstep_wave' =
                   RMul(WAVE_STABILITY_PREFACTOR,
                        WaveBound(sde.n, downward_slopes'))
        /\ IsPass =>
               applied'[Len(applied')] =
                   MinOfThree(ConvergenceBound(dzbydt', topographic__elevation))
      ]_vars

\* The same in the passes in which some pair closes, and with no pair
\* closing when dt_secs stands for the convergence bound.
SubstepIsMinOfThreeInCode ==
    [][ /\ IsEntry =>
               max_tstep_wave' =
                   RMul(WAVE_STABILITY_PREFACTOR,
                        WaveBound(sde.n, downward_slopes'))
        /\ (IsPass /\ RGt(dt_secs, Zero)) =>
               applied'[Len(applied')] =
                   MinOfThree(IF ClosingPairs(dzbydt', topographic__elevation) = {}
                              THEN dt_secs
                              ELSE ConvergenceBound(dzbydt', topographic__elevation))
      ]_vars

\* The examples of the docstrings of mappers.py, which the definitions
\* above reproduce.
Whole(a) == [i \in DOMAIN a |-> <<a[i], 1>>]

ExamplesOfDocstrings ==
    /\ upwind_links_at_node(grad_example, -1) =
           [n \in RmgNodes |->
               << <<-1, -1>>, <<0, -1>>, <<1, -1>>, <<2, -1>>,
                  <<3, -1>>, <<7, 4>>, <<8, 5>>, <<9, 6>>,
                  <<10, -1>>, <<14, 11>>, <<15, 12>>, <<16, 13>> >>[n + 1]]
    /\ downwind_links_at_node(grad_example, 99) =
           [n \in RmgNodes |->
               << <<0, 3>>, <<1, 4>>, <<2, 5>>, <<6, 99>>,
                  <<7, 10>>, <<8, 11>>, <<9, 12>>, <<13, 99>>,
                  <<14, 99>>, <<15, 99>>, <<16, 99>>, <<99, 99>> >>[n + 1]]
    /\ map_upwind_node_link_max_to_node(grad_horizontal) =
           [n \in RmgNodes |-> Whole(<<0, 1, 2, 1, 0, 1, 2, 1, 0, 1, 2, 1>>)[n + 1]]
    /\ map_downwind_node_link_max_to_node(grad_horizontal) =
           [n \in RmgNodes |-> Whole(<<1, 2, 1, 0, 1, 2, 1, 0, 1, 2, 1, 0>>)[n + 1]]
    /\ map_value_at_upwind_node_link_max_to_node(grad_horizontal, vals_arange) =
           [n \in RmgNodes |->
               Whole(<<0, 0, 1, 2, 0, 7, 8, 9, 0, 14, 15, 16>>)[n + 1]]
    /\ map_value_at_min_node_to_link(z_middle_row_reversed,
                                     vals_to_map_of(z_middle_row_reversed)) =
           [l \in RmgLinks |->
               Whole(<<0, 10, 20, 0, 10, 20, 30, 60, 50, 40, 70, 60, 50, 40,
                       80, 90, 100>>)[l + 1]]
    /\ map_link_head_node_to_link(z_arange) =
           [l \in RmgLinks |->
               Whole(<<1, 2, 3, 4, 5, 6, 7, 5, 6, 7, 8, 9, 10, 11, 9, 10,
                       11>>)[l + 1]]
    /\ map_node_to_cell(z_arange) = [c \in RmgCells |-> Whole(<<5, 6>>)[c + 1]]

\* The slots of node n whose link brings flux into n (the field is a
\* gradient: flux runs towards the head of a link whose value is negative),
\* and those whose link carries flux out of n.
UpwindSlots(n) ==
    {k \in Slots : /\ links_at_node[n][k] # -1
                   /\ RLt(RMul(at_link.grad[links_at_node[n][k]],
                               <<link_dirs_at_node[n][k], 1>>), Zero)}

DownwindSlots(n) ==
    {k \in Slots : /\ links_at_node[n][k] # -1
                   /\ RGt(RMul(at_link.grad[links_at_node[n][k]],
                               <<link_dirs_at_node[n][k], 1>>), Zero)}

\* The largest magnitude of the field on the links in the given slots of
\* n, 0 if there is none.
LargestMagnitude(n, slots) ==
    IF slots = {} THEN Zero
    ELSE RMaxOf({RAbs(at_link.grad[links_at_node[n][k]]) : k \in slots})

\* The smallest magnitude of the field on the links of a node with a link
\* in every slot.
SmallestMagnitude(n) ==
    RMinOf({RAbs(at_link.grad[links_at_node[n][k]]) : k \in Slots})

\* C16: map_upwind_node_link_max_to_node returns at every node the largest
\* magnitude on the links that bring flux into it, and 0 where no link
\* does; map_downwind_node_link_max_to_node the same for the links that
\* carry flux out.
C16_WindMaxIsLargestMagnitudeOrZero ==
    /\ called = "map_upwind_node_link_max_to_node" =>
           \A n \in RmgNodes :
               rtn.values[n] = LargestMagnitude(n, UpwindSlots(n))
    /\ called = "map_downwind_node_link_max_to_node" =>
           \A n \in RmgNodes :
               rtn.values[n] = LargestMagnitude(n, DownwindSlots(n))

\* What the two mappers do return: the claimed value wherever the node has
\* a link of the wanted kind, or a slot that is empty or holds a link with
\* no flux; at a node whose four links all run the other way, the smallest
\* of their magnitudes, negated by the upwind mapper.
WindMaxAsComputed ==
    /\ called = "map_upwind_node_link_max_to_node" =>
           \A n \in RmgNodes :
               rtn.values[n] =
                   IF DownwindSlots(n) = Slots THEN RNeg(SmallestMagnitude(n))
                   ELSE LargestMagnitude(n, UpwindSlots(n))
    /\ called = "map_downwind_node_link_max_to_node" =>
           \A n \in RmgNodes :
               rtn.values[n] =
                   IF UpwindSlots(n) = Slots THEN SmallestMagnitude(n)
                   ELSE LargestMagnitude(n, DownwindSlots(n))

\* The links in the given slots of n, in slot order, padded with bad_index
\* to width X.
PaddedRow(n, slots, X) ==
    Kept(links_at_node[n], [k \in Slots |-> k \in slots], 1)
        \o [i \in 1..(X - Cardinality(slots)) |-> bad_index]

MaxCount(S) == CHOOSE m \in S : \A x \in S : x <= m

\* C17: upwind_links_at_node returns, for every node, a row of width X, the
\* largest number of upwind links of any node, holding the node's upwind
\* links and then bad_index; downwind_links_at_node the same for downwind
\* links.
C17_WindLinksShapeAndRows ==
    /\ called = "upwind_links_at_node" =>
           \A n \in RmgNodes :
               rtn.values[n] =
                   PaddedRow(n, UpwindSlots(n),
                             MaxCount({Cardinality(UpwindSlots(q)) : q \in RmgNodes}))
    /\ called = "downwind_links_at_node" =>
           \A n \in RmgNodes :
               rtn.values[n] =
                   PaddedRow(n, DownwindSlots(n),
                             MaxCount({Cardinality(DownwindSlots(q)) : q \in RmgNodes}))

\* What the two functions do return: the claimed rows unless some node has
\* a link of the wanted kind in all four slots, and then rows of width 0.
WindLinksAsComputed ==
    /\ called = "upwind_links_at_node" =>
           \A n \in RmgNodes :
               rtn.values[n] =
                   IF \E q \in RmgNodes : UpwindSlots(q) = Slots THEN <<>>
                   ELSE PaddedRow(n, UpwindSlots(n),
                            MaxCount({Cardinality(UpwindSlots(q)) : q \in RmgNodes}))
    /\ called = "downwind_links_at_node" =>
           \A n \in RmgNodes :
               rtn.values[n] =
                   IF \E q \in RmgNodes : DownwindSlots(q) = Slots THEN <<>>
                   ELSE PaddedRow(n, DownwindSlots(n),
                            MaxCount({Cardinality(DownwindSlots(q)) : q \in RmgNodes}))

OutMappers == LinkMappers \cup {"map_node_to_cell"} \cup NodeMappers
                  \cup BooleanMappers

\* The call ended well; with a buffer handed over the result is in the
\* buffer and the buffer is what was returned, with none a new array was
\* returned; either way it holds the mapper's values.
OutHonoured ==
    /\ mapper_raised = "none"
    /\ rtn.values = MapperResult(called)
    /\ rtn.is_out = out.passed
    /\ out.passed => out.values = rtn.values

\* C18: every mapper that takes out writes its result into a buffer that
\* is handed over and returns that buffer, and returns a new array with
\* the same values when none is; the boolean mappers included.
C18_OutIsWrittenAndReturned == called \in OutMappers => OutHonoured

\* The same of every mapper but the two boolean ones, which raise
\* AssertionError on any buffer and leave it unwritten.
OutHonouredButByBooleanMappers ==
    /\ called \in OutMappers \ BooleanMappers => OutHonoured
    /\ called \in BooleanMappers =>
           IF out.passed
           THEN mapper_raised = "AssertionError" /\ rtn = NoReturn
           ELSE OutHonoured

----------------------------------------------------------------------------
(* The one-hour floor of the sub-step.                                     *)

OneHour == <<3600, 1>>

\* The call marks some node as flooded.
CallHasFloodedNodes == FloodedNodes(is_flooded) # {}

\* C21: in a call with flooded nodes, every pass but the last applies a
\* sub-step of at least one hour (3600 s).
C21_FloodedCallsKeepTheHourFloor ==
    [][ (IsPass /\ CallHasFloodedNodes /\ pc' = "substep") =>
            RGe(this_tstep', OneHour) ]_vars

\* What the code does: flood_node is None in every pass, so the floor is
\* never taken and the sub-step is the one the two bounds and dt_secs give,
\* flooded nodes or not.
FloorIsNeverTaken ==
    [][ IsPass =>
            chosen_tsteps'[Len(chosen_tsteps')] =
                PyMin(PyMin(RMul(t_to_converge', conv_factor), max_tstep_wave),
                      dt_secs) ]_vars

----------------------------------------------------------------------------
(* The slopes that enter the power laws.                                   *)

\* The pass about to run is the first of its call, or a later one.
FirstPassNext == pc = "substep" /\ Len(applied) = 0

LaterPassNext == pc = "substep" /\ Len(applied) >= 1

\* C22: in every pass, the first and every later one, the slope that the
\* capacity and the erosion rate are computed from is at least
\* np.spacing(0.) at every node.
C22_SlopeFlooredInEveryPass ==
    pc = "substep" => \A n \in Nodes : RGe(downward_slopes[n], Tiny)

\* The same at the core draining nodes alone.
SlopeFlooredAtCoreDrainingNodes ==
    pc = "substep" => \A n \in core_draining_nodes : RGe(downward_slopes[n], Tiny)

\* What the code does: the floor is np.spacing(0.) before the first pass
\* and 0 before every later one, where the slope is exactly 0 at every
\* node that is not a core draining node.
SlopeFlooredInFirstPassOnly ==
    /\ FirstPassNext => \A n \in Nodes : RGe(downward_slopes[n], Tiny)
    /\ LaterPassNext =>
           /\ \A n \in Nodes : RGe(downward_slopes[n], Zero)
           /\ \A n \in Nodes \ core_draining_nodes : downward_slopes[n] = Zero

----------------------------------------------------------------------------
(* The phases of one call.                                                 *)

\* The moves of the program counter within a call: into the loop, round
\* the loop, out of it through the break, and the return; or out of the
\* call through an exception.
PhaseMoves ==
    { <<"idle", "substep">>, <<"substep", "return">>, <<"return", "done">>,
      <<"idle", "raised">>, <<"substep", "raised">> }

\* (z[n] - z[receiver(n)]) / link length at the core draining nodes, 0
\* elsewhere, nothing below 0.
SlopesOf(z) ==
    [n \in Nodes |->
        IF n \in core_draining_nodes
        THEN LET s == RDiv(RSub(z[n], z[flow_receiver[n]]), length_of_d8)
             IN  IF RLt(s, Zero) THEN Zero ELSE s
        ELSE Zero]

\* The pass the step takes is the last of its call.
IsLastPass == IsPass /\ pc' = "return"

\* C23, as stated: every pass, the last one before the return included, is
\* followed by a recomputation of the slopes from the elevations it has
\* just written.
C23_EveryPassIsResloped ==
    [][ IsPass => downward_slopes' = SlopesOf(topographic__elevation') ]_vars

\* C23, amended: a call goes from its entry through one or more passes to
\* its return; every pass but the last is followed by a recomputation of
\* the slopes from the elevations it has just written, and the last pass
\* leaves the slopes as they were and goes straight to the return.
C23_EveryPassButTheLastIsResloped ==
    [][ /\ (pc \in {"idle", "substep", "return"} /\ pc' # pc) =>
               <<pc, pc'>> \in PhaseMoves
        /\ (IsPass /\ ~IsLastPass) =>
               downward_slopes' = SlopesOf(topographic__elevation')
        /\ IsLastPass => downward_slopes' = downward_slopes
      ]_vars

\* A call of several passes has returned: the slopes it ends with are those
\* computed after its last pass but one, not those of the elevations it
\* returns.
C23_Witness ==
    /\ pc = "done" /\ PositiveDt
    /\ Len(applied) >= 2
    /\ downward_slopes # SlopesOf(topographic__elevation)
    /\ \E n \in core_draining_nodes :
           downward_slopes[n] # Clip(topographic__steepest_slope[n], Tiny)

----------------------------------------------------------------------------
(* The inputs erode takes from the flow router.                            *)

\* The call is in its loop or past it.
InCall == pc \in {"substep", "return", "done"}

\* C24: throughout a call and after it, whatever the number of passes, the
\* grid's topographic__steepest_slope holds the values the flow router
\* gave it and the receiver field is the one the call found; the slopes
\* recomputed between passes are in downward_slopes alone.  (Drainage area,
\* receiver, node order and link to receiver are node_A, flow_receiver, s_in
\* and draining_nodes, which erode reads and has no statement to write.)
C24_RoutingInputsUnchanged ==
    InCall =>
        /\ topographic__steepest_slope = RouterSlope(z_initial)
        /\ receiver_field = "single"

\* A call of several passes has returned with elevations, and private
\* slopes, that are no longer those of the grid's slope field.
C24_Witness ==
    /\ pc = "done" /\ Len(applied) >= 2
    /\ topographic__elevation # z_initial
    /\ \E n \in core_draining_nodes :
           /\ downward_slopes[n] # topographic__steepest_slope[n]
           /\ RouterSlope(topographic__elevation)[n] # topographic__steepest_slope[n]

----------------------------------------------------------------------------
(* The order of a router pass.                                             *)

\* The place of node n in the order the last pass visited the nodes.
VisitOf(n) == CHOOSE k \in 1..Len(router_log.order) : router_log.order[k] = n

\* The nodes that send their flow to node n.
Contributors(n) == {m \in Nodes \ {n} : flow_receiver[m] = n}

----------------------------------------------------------------------------
(* Transport-limited nodes.                                                *)

\* Qc of node n in the pass the step takes: Kt A^mt S^nt at the slopes the
\* pass starts from.
CapacityInPass(n) ==
    SlopeProduct(RMul(Kt_unit_time, RPow(node_A[n], m_t)),
                 SlopePow(downward_slopes[n], n_t))

\* Qs of node n in the pass the step takes: what the pass found in the
\* river at n plus the supply of the node's own cell.
FluxInPass(n) == RAdd(router_log'.read[n], hillslope_sediment_flux_wzeros[n])

TransportLimitedAtCapacityForPositiveDt ==
    [][ (IsPass /\ PositiveDt) =>
          \A n \in Nodes \ FloodedNodes(is_flooded) :
              LET Qs == FluxInPass(n)
                  Qc == CapacityInPass(n)
              IN  /\ is_it_TL'[n] <=> RGe(Qs, Qc)
                  /\ is_it_TL'[n] =>
                         /\ dzbydt'[n] = Zero
                         /\ voldroprate'[n] = RMul(RSub(Qs, Qc), porosity)
                         /\ sediment_passed'[n] = Qc
                  /\ RLe(sediment_passed'[n], Qc)
      ]_vars

\* After a pass of a call with dt > 0 a core node that is not flooded is
\* transport-limited with a surplus to deposit and a capacity to pass on.
TransportLimitedWithSurplus ==
    /\ AfterSubstep /\ PositiveDt
    /\ \E n \in core_nodes \ FloodedNodes(is_flooded) :
           /\ is_it_TL[n]
           /\ RGt(voldroprate[n], Zero)
           /\ RGt(sediment_passed[n], Zero)

\* After a pass of a call with dt > 0 a core node that is not flooded is
\* detachment-limited and passes on less than its capacity.
DetachmentLimitedBelowCapacity ==
    /\ AfterSubstep /\ PositiveDt
    /\ \E n \in core_nodes \ FloodedNodes(is_flooded) :
           /\ ~is_it_TL[n]
           /\ RLt(sediment_passed[n], transport_capacities[n])

----------------------------------------------------------------------------
(* The refinement that uses up its passes.                                 *)

\* C27: a pass in which the refinement of some nodes uses up
\* pseudoimplicit_repeats without settling to 1% adds one per such node to
\* the component's _pseudoimplicit_aborts, and erode goes on without
\* raising.
C27_AbortsAreCounted ==
    [][ IsPass =>
            /\ pseudoimplicit_aborts' =
                   pseudoimplicit_aborts + router_log'.aborts
            /\ pc' # "raised" ]_vars

\* What the code does: the counter is 0 from __init__ on, whatever the
\* passes give up on, and a pass that gives up does not raise.
AbortsCounterStaysZero ==
    /\ pseudoimplicit_aborts = 0
    /\ (AfterSubstep /\ router_log.aborts > 0) => raised = "none"

\* A pass has given up on the refinement of some node.
SomeRefinementGaveUp == AfterSubstep /\ router_log.aborts > 0

----------------------------------------------------------------------------
(* The output fields the component declares and does not compute.          *)

\* C28: from construction on, through the call of erode and after it,
\* channel__bed_shear_stress and channel__discharge hold the zeros they were
\* created with.
C28_DeclaredOnlyFieldsStayZero ==
    output_fields =>
        /\ channel__bed_shear_stress = ZeroField
        /\ channel__discharge = ZeroField

\* erode has returned and has published a river flux that is not zero
\* everywhere, while channel__discharge is.
C28_Witness ==
    /\ pc = "done" /\ output_fields
    /\ channel_sediment__volumetric_discharge # ZeroField
    /\ channel_sediment__volumetric_transport_capacity # ZeroField
    /\ channel__discharge = ZeroField
    /\ channel__bed_shear_stress = ZeroField

----------------------------------------------------------------------------
(* The sediment depth through a call.                                      *)

\* C29: on entry the sediment depth is set to 0 at every node and the depth
\* it held becomes, at the nodes with cells, the supply rate
\* depth x cell area / dt_secs; every pass leaves the supply rates as they
\* are and overwrites the depth at the nodes with cells with
\* deposition rate / cell area x the length of that sub-step, the depth
\* elsewhere staying 0.
C29_SedimentIsRebuiltEachSubstep ==
    [][ /\ IsEntry =>
               /\ channel_sediment__depth' = ZeroField
               /\ \A n \in node_at_cell :
                      hillslope_sediment_flux_wzeros'[n] =
                          RDiv(RMul(channel_sediment__depth[n], area_of_cell[n]),
                               dt_secs')
        /\ IsPass =>
               /\ hillslope_sediment_flux_wzeros' = hillslope_sediment_flux_wzeros
               /\ \A n \in node_at_cell :
                      /\ hillslope_sediment_flux_wzeros[n] =
                             RDiv(RMul(sed_initial[n], area_of_cell[n]), dt_secs)
                      /\ channel_sediment__depth'[n] =
                             RMul(RDiv(voldroprate'[n], area_of_cell[n]),
                                  this_tstep')
               /\ \A n \in Nodes \ node_at_cell :
                      channel_sediment__depth'[n] = Zero
      ]_vars

\* A call on a sediment-covered bed has returned after several sub-steps,
\* all with deposition at a node whose depth is that of the last sub-step
\* alone, less than the rate would give over the whole of dt.
C29_Witness ==
    /\ pc = "done" /\ PositiveDt
    /\ Len(applied) >= 2
    /\ \E n \in node_at_cell :
           /\ RGt(sed_initial[n], Zero)
           /\ RGt(voldroprate[n], Zero)
           /\ channel_sediment__depth[n] =
                  RMul(RDiv(voldroprate[n], area_of_cell[n]),
                       applied[Len(applied)])
           /\ RLt(channel_sediment__depth[n],
                  RMul(RDiv(voldroprate[n], area_of_cell[n]), dt_secs))

----------------------------------------------------------------------------
(* The normalisation of the humped response.                               *)

\* The curve of component c at sample i, taken with the norm n.
CurveAt(c, i, n) ==
    sed_flux_fn_gen_genhump(Sample(i), c.kappa, c.nu, c.c, c.phi, n)

\* The shape parameters of a component.
ShapeOf(c) == [kappa |-> c.kappa, nu |-> c.nu, phi |-> c.phi, c |-> c.c]

\* A sample among lo to hi at which the un-normalised curve of shape h is
\* largest, found by halves.
RECURSIVE PeakOver(_, _, _)
PeakOver(h, lo, hi) ==
    IF lo = hi THEN lo
    ELSE LET mid == (lo + hi) \div 2
             a == PeakOver(h, lo, mid)
             b == PeakOver(h, mid + 1, hi)
         IN  IF RGt(CurveAt(h, b, One), CurveAt(h, a, One)) THEN b ELSE a

PeakSample == [h \in HumpChoices |-> PeakOver(h, 0, SampleCount - 1)]

\* The step builds the component.
IsConstruction == pc = "new" /\ pc' = "idle"

\* Selector, shape parameters and norm of a component.
ResponseOf(c) == <<c.type, c.kappa, c.nu, c.phi, c.c, c.norm>>

\* C30: construction sets the norm of a generalized_humped component to 1
\* over the largest value of the un-normalised curve at the samples 0,
\* 0.001, ..., 1, so that the rescaled curve is at most 1 at every sample
\* and 1 at one of them; and no step after construction changes the norm,
\* the selector or the shape parameters.
C30_NormSetOnceAtConstruction ==
    [][ /\ (IsConstruction /\ sde'.type = "generalized_humped") =>
               LET k == PeakSample[ShapeOf(sde')] IN
               /\ sde'.norm = RDiv(One, CurveAt(sde', k, One))
               /\ CurveAt(sde', k, sde'.norm) = One
               /\ \A i \in 0..(SampleCount - 1) :
                      RLe(CurveAt(sde', i, sde'.norm), One)
        /\ pc \notin {"new", "raised"} => ResponseOf(sde') = ResponseOf(sde)
      ]_vars

\* erode has returned on a generalized_humped component whose norm is
\* neither the 1 the curve is sampled with nor the 0 of the other families,
\* after a pass that evaluated the response at a detachment-limited node.
C30_Witness ==
    /\ pc = "done" /\ sde.type = "generalized_humped"
    /\ sde.norm \notin {Zero, One}
    /\ ever_DL \cap core_nodes # {}
    /\ \E n \in core_nodes : RLt(dzbydt[n], Zero)

====
